---- MODULE Spec2Model ----
(***************************************************************************)
(* A model of the PyATC simulation core: the runway registry               *)
(* (atc/objects/runway_v2.py), the aircraft command execution and update   *)
(* (atc/objects/aircraft_v2.py), the command interpreter                   *)
(* (atc/command_parser.py) and the autonomous controller                   *)
(* (atc/ai/controller.py).                                                 *)
(*                                                                         *)
(* Time.  The code reads the wall clock (time.time()) and stores           *)
(* timestamps.  The model stores, for every timestamp, the time elapsed    *)
(* since it was taken (or the time left until it is due); wall-clock time  *)
(* passes at the start of every iteration of the main loop.                *)
(*                                                                         *)
(* Space.  Positions are pixels on a coarse grid (AreaX, AreaY).  One      *)
(* update moves an aircraft by less than a grid cell, so an update either  *)
(* leaves the aircraft in its cell or moves it to the next cell in the     *)
(* direction of its heading.                                               *)
(***************************************************************************)
EXTENDS Integers, Sequences, FiniteSets, TLC

VARIABLES planes, runways, arrivals, fatal_error, running, results, pc, cursor,
          calls, conflicts, qt

vars == <<planes, runways, arrivals, fatal_error, running, results, pc, cursor,
          calls, conflicts, qt>>

None == "None"
NoInt == -1
NoPlane == 0

----------------------------------------------------------------------------
----------------------------------------------------------------------------
(* Program constants: src/constants.py *)

WIDTH == 1500
HEIGHT == 600
NM_PER_PX_NUM == 8
NM_PER_PX_DEN == 100
SAFE_LAT_NM == 3
SAFE_VERT_FT == 1000
LANDING_HEADING_OFFSET_DEG == 60
LANDING_HEIGHT_OFFSET_FT == 3000

(* Constants the code imports from constants.py that the file does not set. *)
RUNWAY_DEFAULT_STATUS == "AVAILABLE"
RUNWAY_OCCUPIED_STATUS == "OCCUPIED"
RUNWAY_CLOSED_STATUS == "CLOSED"
CMD_TAKEOFF_PARAMS_REQUIRED == 3
CMD_TURN_TOKENS == {"L", "R", "X", "EX"}
ALTITUDE_STEP_FT == 1000
TAKEOFF_RELEASE_ALT_FT == 1000
TAKEOFF_RELEASE_RATIO_NUM == 1
TAKEOFF_RELEASE_RATIO_DEN == 2
LANDING_TOUCHDOWN_ALT_FT == 50
LANDING_ROLLOUT_MIN_SPEED == 30
LANDING_ROLLOUT_MAX_TIME == 1
RUNWAY_SPAWN_ALT_FT == 0
DEFAULT_DEST_ALT == 1000
COMMAND_DELAY_RANGE == {1}
ALTITUDE_INTERPOLATION_MIN_DURATION == 2
ALTITUDE_STABILISE_AMPLITUDE == 30
ALTITUDE_STABILISE_WINDOW == 2
SPEED_LAND == 160
LOW_ALT_FT == 20
AI_DECISION_PERIOD == 8
AI_DECONFLICT_TURN == 30
AI_APPROACH_ARM_DIST_NM == 15
AI_ALIGN_ALLOWED_DIFF_DEG == 30
AI_LANDING_SPEED == 160

DEFAULT_CLIMB_RATE_FPM == 1000
TURN_RATE_DEG_PER_SEC == 3
SPEED_CHANGE_RATE_KTS_PER_SEC == 2
LANDING_DECEL_RATE_KTS_PER_SEC == 4

----------------------------------------------------------------------------
(* Tokens.  A token of the input line is a word or a string of decimal     *)
(* digits; str.isdigit(), len(), int() and the format "%03d" are computed  *)
(* on the digits.  NoTok stands for Python's None (no token is empty).     *)

W(s) == [w |-> s, d |-> <<>>]
N(ds) == [w |-> "", d |-> ds]
NoTok == [w |-> "", d |-> <<>>]

isdigit(t) == t.w = "" /\ Len(t.d) > 0

RECURSIVE DigitsValue(_)
DigitsValue(ds) ==
    IF ds = <<>> THEN 0
    ELSE 10 * DigitsValue(SubSeq(ds, 1, Len(ds) - 1)) + ds[Len(ds)]

(* int(token) for a token of digits *)
int(t) == DigitsValue(t.d)

RECURSIVE Digits(_)
Digits(n) == IF n < 10 THEN <<n>> ELSE Digits(n \div 10) \o <<n % 10>>

(* str(n) and f"{n:03d}" for n >= 0 *)
str(n) == N(Digits(n))
fmt03d(n) ==
    LET ds == Digits(n)
    IN N(IF Len(ds) >= 3 THEN ds
         ELSE IF Len(ds) = 2 THEN <<0>> \o ds ELSE <<0, 0>> \o ds)

(* Command(type, value, extra).  value is the list of the comma-separated  *)
(* parts of the string (one part for a single token), <<>> when None.      *)
Command(type, value, extra) == [type |-> type, value |-> value, extra |-> extra]

(* cmd.value.isdigit(), and the token of a value without a comma *)
ValueIsDigit(value) == Len(value) = 1 /\ isdigit(value[1])
ValueWord(value) == IF Len(value) = 1 THEN value[1].w ELSE ""

Max(a, b) == IF a >= b THEN a ELSE b
Min(a, b) == IF a <= b THEN a ELSE b
Abs(a) == IF a >= 0 THEN a ELSE -a

----------------------------------------------------------------------------
(* Runways: atc/objects/runway_v2.py *)

(* _build_runways: the two runways of constants.RUNWAYS share the bearing  *)
(* 270 and are named 27L and 27R; x, y are int(x * WIDTH), int(y * HEIGHT) *)
RunwayNames == {"27L", "27R"}
RunwayBearing == [r \in RunwayNames |-> 270]
RunwayX == [r \in RunwayNames |-> IF r = "27L" THEN 750 ELSE 1050]
RunwayY == [r \in RunwayNames |-> IF r = "27L" THEN 360 ELSE 390]

NewRunway == [status |-> RUNWAY_DEFAULT_STATUS, active_aircraft |-> NoPlane]

(* get_runway(name): the runway of that name, or None *)
get_runway(name) == IF name \in RunwayNames THEN name ELSE None

(* is_available that refuses closed runways only *)
is_available_unless_closed(rw) == rw.status # RUNWAY_CLOSED_STATUS

is_available(rw) ==
    rw.status = RUNWAY_DEFAULT_STATUS /\ rw.active_aircraft = NoPlane

occupy(rw, aircraft) ==
    [rw EXCEPT !.active_aircraft = aircraft, !.status = RUNWAY_OCCUPIED_STATUS]

(* release that forgets the holder and leaves the status *)
release_holder_only(rw) == [rw EXCEPT !.active_aircraft = NoPlane]

release(rw) ==
    [rw EXCEPT !.active_aircraft = NoPlane, !.status = RUNWAY_DEFAULT_STATUS]

----------------------------------------------------------------------------
(* Aircraft: atc/objects/aircraft_v2.py *)

NoMsg == ""

(* The dataclass Aircraft after __post_init__.  Optional numbers are NoInt  *)
(* when None.  _alt_start_time, _alt_stabilise_start and touchdown_time     *)
(* hold the time elapsed since the timestamp was taken; _ai_next_decision   *)
(* holds the time left until it.  Aircraft are identified by their index    *)
(* in the list of planes.                                                    *)
Aircraft(callsign, x, y, hdg, spd, alt, dest_alt) ==
    [callsign |-> callsign, x |-> x, y |-> y, hdg |-> hdg, spd |-> spd,
     alt |-> alt, dest_alt |-> dest_alt, ai_controlled |-> FALSE,
     dest_hdg |-> NoInt, state |-> "AIRBORNE", turn_dir_forced |-> NoTok,
     climb_rate |-> DEFAULT_CLIMB_RATE_FPM,
     expedite |-> FALSE, dest_spd |-> NoInt, msg |-> NoMsg,
     command_queue |-> <<>>, holding |-> FALSE, hold_center |-> <<>>,
     current_runway |-> None, touchdown_time |-> NoInt,
     pending_command_timer |-> 0, on_runway |-> FALSE,
     alt_start |-> alt, alt_target |-> dest_alt, alt_start_time |-> NoInt,
     alt_duration |-> 0, alt_stabilise_start |-> NoInt,
     ai_next_decision |-> 0]

(* set_altitude_target: the duration is max(MIN_DURATION, delta/1000 * 0.5) *)
(* seconds, 1.0 when delta = 0                                              *)
set_altitude_target(p, target_alt) ==
    LET delta == Abs(target_alt - p.alt)
    IN [p EXCEPT !.alt_start = p.alt,
                 !.alt_target = target_alt,
                 !.alt_start_time = 0,
                 !.alt_duration =
                     IF delta > 0
                     THEN Max(ALTITUDE_INTERPOLATION_MIN_DURATION, delta \div 2000)
                     ELSE 1,
                 !.alt_stabilise_start = NoInt]

(* utils.load_fixes: FIXES scaled by the radar's share of the window,      *)
(* int(x * 1230 / 1500), int(y * 540 / 600)                                 *)
FixNames == {"DPA", "EON", "FONTI", "OBK"}
FixX == [f \in FixNames |->
            ((CASE f = "DPA" -> 1200 [] f = "EON" -> 800 [] OTHER -> 300) * 1230) \div 1500]
FixY == [f \in FixNames |->
            ((CASE f = "DPA" -> 250 [] f = "EON" -> 700 [] f = "FONTI" -> 150 [] OTHER -> 600)
                * 540) \div 600]

(* get_heading_to_fix: degrees(atan2(dx, -dy)) % 360, to the nearest of    *)
(* the eight compass points (tan 22.5 deg taken as 5/12)                    *)
get_heading_to_fix(p, f) ==
    LET dx == FixX[f] - p.x
        dy == FixY[f] - p.y
        ax == Abs(dx)
        ay == Abs(dy)
    IN IF 12 * ax <= 5 * ay THEN (IF dy <= 0 THEN 0 ELSE 180)
       ELSE IF 12 * ay <= 5 * ax THEN (IF dx > 0 THEN 90 ELSE 270)
       ELSE IF dx > 0 THEN (IF dy < 0 THEN 45 ELSE 135)
       ELSE (IF dy < 0 THEN 315 ELSE 225)

(* distance_to_fix(ac, fix) < nm, compared on the squares, in pixels *)
FixWithinNm(p, f, nm) ==
    LET dx == FixX[f] - p.x
        dy == FixY[f] - p.y
    IN (dx * dx + dy * dy) * NM_PER_PX_NUM * NM_PER_PX_NUM
           < nm * nm * NM_PER_PX_DEN * NM_PER_PX_DEN

Result(p, rws, raised) == [p |-> p, rws |-> rws, raised |-> raised]

(* TAKEOFF that leaves the target heading alone *)
ExecTakeoffNoBearing(a, p, rws, cmd) ==
    LET rw == get_runway(cmd.value[1].w)
    IN IF rw = None
       THEN Result([p EXCEPT !.msg = "not found"], rws, FALSE)
       ELSE IF ~is_available(rws[rw])
       THEN Result([p EXCEPT !.msg = "occupied"], rws, FALSE)
       ELSE Result([p EXCEPT !.current_runway = rw,
                             !.state = "TAKEOFF",
                             !.dest_spd = int(cmd.value[2]),
                             !.dest_alt = int(cmd.value[3]),
                             !.msg = "rolling"],
                   [rws EXCEPT ![rw] = occupy(rws[rw], a)], FALSE)

(* TAKEOFF that starts the roll before it finds the runway occupied *)
ExecTakeoffRollsFirst(a, p, rws, cmd) ==
    LET rw == get_runway(cmd.value[1].w)
    IN IF rw = None
       THEN Result([p EXCEPT !.msg = "not found"], rws, FALSE)
       ELSE IF ~is_available(rws[rw])
       THEN Result([p EXCEPT !.state = "TAKEOFF", !.msg = "occupied"], rws, FALSE)
       ELSE Result([p EXCEPT !.current_runway = rw,
                             !.state = "TAKEOFF",
                             !.dest_spd = int(cmd.value[2]),
                             !.dest_alt = int(cmd.value[3]),
                             !.dest_hdg = RunwayBearing[rw],
                             !.msg = "rolling"],
                   [rws EXCEPT ![rw] = occupy(rws[rw], a)], FALSE)

(* LAND without the availability check *)
ExecLandUnguarded(a, p, rws, cmd) ==
    LET rw == get_runway(ValueWord(cmd.value))
    IN IF rw = None
       THEN Result([p EXCEPT !.msg = "not found"], rws, FALSE)
       ELSE Result([set_altitude_target(p, 0) EXCEPT
                             !.current_runway = rw,
                             !.state = "LANDING",
                             !.dest_hdg = RunwayBearing[rw],
                             !.dest_spd = SPEED_LAND,
                             !.msg = "landing"],
                   [rws EXCEPT ![rw] = occupy(rws[rw], a)], FALSE)

(* execute_command(cmd) of aircraft a (its record p): the aircraft and the *)
(* runways after it, and whether it raised                                  *)
ExecTakeoff(a, p, rws, cmd) ==
    IF Len(cmd.value) # 3 THEN Result(p, rws, TRUE)
    ELSE
    LET runway_name == cmd.value[1]
        spd == cmd.value[2]
        alt == cmd.value[3]
        rw == get_runway(runway_name.w)
    IN IF rw = None
       THEN Result([p EXCEPT !.msg = "not found"], rws, FALSE)
       ELSE IF ~is_available(rws[rw])
       THEN Result([p EXCEPT !.msg = "occupied"], rws, FALSE)
       ELSE IF ~isdigit(spd) \/ ~isdigit(alt)
       THEN Result([p EXCEPT !.current_runway = rw, !.state = "TAKEOFF",
                             !.dest_spd = IF isdigit(spd) THEN int(spd) ELSE @],
                   [rws EXCEPT ![rw] = occupy(rws[rw], a)], TRUE)
       ELSE Result([p EXCEPT !.current_runway = rw,
                             !.state = "TAKEOFF",
                             !.dest_spd = int(spd),
                             !.dest_alt = int(alt),
                             !.dest_hdg = RunwayBearing[rw],
                             !.msg = "rolling"],
                   [rws EXCEPT ![rw] = occupy(rws[rw], a)], FALSE)

ExecLand(a, p, rws, cmd) ==
    LET rw == get_runway(ValueWord(cmd.value))
    IN IF rw = None
       THEN Result([p EXCEPT !.msg = "not found"], rws, FALSE)
       ELSE IF ~is_available(rws[rw])
       THEN Result([p EXCEPT !.msg = "occupied"], rws, FALSE)
       ELSE Result([set_altitude_target(p, 0) EXCEPT
                             !.current_runway = rw,
                             !.state = "LANDING",
                             !.dest_hdg = RunwayBearing[rw],
                             !.dest_spd = SPEED_LAND,
                             !.msg = "landing"],
                   [rws EXCEPT ![rw] = occupy(rws[rw], a)], FALSE)

execute_command(a, p, rws, cmd) ==
    IF cmd.value = <<>> THEN Result(p, rws, TRUE)
    ELSE CASE cmd.type = "ALT" ->
              IF ValueIsDigit(cmd.value)
              THEN Result([p EXCEPT !.dest_alt = int(cmd.value[1]) * 1000,
                                    !.expedite = cmd.extra \in {W("X"), W("EX")}],
                          rws, FALSE)
              ELSE Result([p EXCEPT !.msg = "invalid altitude"], rws, FALSE)
         [] cmd.type = "HDG" ->
              IF ValueIsDigit(cmd.value)
              THEN Result([p EXCEPT !.dest_hdg = int(cmd.value[1]),
                                    !.turn_dir_forced = cmd.extra],
                          rws, FALSE)
              ELSE Result([p EXCEPT !.msg = "invalid heading"], rws, FALSE)
         [] cmd.type = "SPD" ->
              IF ValueIsDigit(cmd.value)
              THEN Result([p EXCEPT !.dest_spd = int(cmd.value[1])], rws, FALSE)
              ELSE Result([p EXCEPT !.msg = "invalid speed"], rws, FALSE)
         [] cmd.type = "HOLD" ->
              Result([p EXCEPT !.holding = TRUE,
                               !.hold_center = <<p.x, p.y>>,
                               !.msg = "HOLDING"], rws, FALSE)
         [] cmd.type = "NAV" ->
              IF ValueWord(cmd.value) \notin FixNames
              THEN Result([p EXCEPT !.msg = "UNKNOWN FIX"],
                          rws, FALSE)
              ELSE Result([p EXCEPT
                             !.dest_hdg = get_heading_to_fix(p, ValueWord(cmd.value)),
                             !.msg = IF FixWithinNm(p, ValueWord(cmd.value), 12)
                                     THEN "ARRIVED" ELSE "CLEARED TO"],
                          rws, FALSE)
         [] cmd.type = "TAKEOFF" -> ExecTakeoff(a, p, rws, cmd)
         [] cmd.type = "LAND" -> ExecLand(a, p, rws, cmd)
         [] OTHER -> Result(p, rws, FALSE)

----------------------------------------------------------------------------
(* Aircraft.update(dt): src/atc/objects/aircraft_v2.py, lines 264-366.     *)
(* dt is 1 (one time step of the loop) or 0 (the loop passes 0 once a      *)
(* fatal error is recorded).                                                *)

(* The stage taking the newest command of the queue instead of the oldest  *)
CommandStageNewestFirst(a, p, rws, dt, delay) ==
    IF p.command_queue = <<>>
    THEN [p |-> p, rws |-> rws, raised |-> FALSE, ret |-> FALSE]
    ELSE
    LET current == p.command_queue[Len(p.command_queue)]
        timer == IF p.pending_command_timer <= 0 THEN delay
                 ELSE p.pending_command_timer - dt
        p1 == [p EXCEPT !.pending_command_timer = timer]
    IN IF p.pending_command_timer > 0 /\ timer > 0
       THEN [p |-> p1, rws |-> rws, raised |-> FALSE, ret |-> TRUE]
       ELSE
       LET done == execute_command(a, p1, rws, current)
       IN IF done.raised
          THEN [p |-> done.p, rws |-> done.rws, raised |-> TRUE, ret |-> FALSE]
          ELSE [p |-> [done.p EXCEPT !.command_queue =
                                         SubSeq(p.command_queue, 1,
                                                Len(p.command_queue) - 1),
                                     !.pending_command_timer = 0],
                rws |-> done.rws, raised |-> FALSE, ret |-> FALSE]

(* Lines 265-278: the head of the queue.  ret: update returned at line 273 *)
CommandStage(a, p, rws, dt, delay) ==
    IF p.command_queue = <<>>
    THEN [p |-> p, rws |-> rws, raised |-> FALSE, ret |-> FALSE]
    ELSE
    LET current == p.command_queue[1]
        timer == IF p.pending_command_timer <= 0 THEN delay
                 ELSE p.pending_command_timer - dt
        p1 == [p EXCEPT !.pending_command_timer = timer]
    IN IF p.pending_command_timer > 0 /\ timer > 0
       THEN [p |-> p1, rws |-> rws, raised |-> FALSE, ret |-> TRUE]
       ELSE
       LET done == execute_command(a, p1, rws, current)
       IN IF done.raised
          THEN [p |-> done.p, rws |-> done.rws, raised |-> TRUE, ret |-> FALSE]
          ELSE [p |-> [done.p EXCEPT !.command_queue = Tail(p.command_queue),
                                     !.pending_command_timer = 0],
                rws |-> done.rws, raised |-> FALSE, ret |-> FALSE]

(* The eased profile at elapsed/duration: 0 at the start, 1/2 half way, 1  *)
(* at the end (smoothstep 3t^2 - 2t^3), applied to the altitude change     *)
EasedAltitude(start, target, elapsed, duration) ==
    IF elapsed >= duration THEN target
    ELSE start + ((target - start) * elapsed * elapsed * (3 * duration - 2 * elapsed))
                     \div (duration * duration * duration)

(* sin(elapsed * FREQ) * AMPLITUDE * decay: 0 when the stabilisation starts *)
StabiliseOffset(elapsed_since) ==
    IF elapsed_since = 0 THEN 0 ELSE ALTITUDE_STABILISE_AMPLITUDE \div 2

(* Lines 285-310 *)
AltitudeStage(p, dt) ==
    IF p.alt_start_time # NoInt
    THEN LET duration == Max(p.alt_duration, ALTITUDE_INTERPOLATION_MIN_DURATION)
             p1 == [p EXCEPT !.alt_duration = duration,
                             !.alt = EasedAltitude(p.alt_start, p.alt_target,
                                                   p.alt_start_time, duration)]
         IN IF p.alt_start_time >= duration
            THEN LET since == IF p.alt_stabilise_start = NoInt THEN 0
                              ELSE p.alt_stabilise_start
                 IN IF since >= ALTITUDE_STABILISE_WINDOW
                    THEN [p1 EXCEPT !.alt = p.alt_target,
                                    !.alt_start_time = NoInt,
                                    !.alt_stabilise_start = NoInt]
                    ELSE [p1 EXCEPT !.alt = p.alt_target + StabiliseOffset(since),
                                    !.alt_stabilise_start = since]
            ELSE p1
    ELSE LET rate == (p.climb_rate * (IF p.expedite THEN 2 ELSE 1) * dt) \div 60
         IN IF p.alt < p.dest_alt
            THEN [p EXCEPT !.alt = Min(p.dest_alt, p.alt + rate)]
            ELSE IF p.alt > p.dest_alt
            THEN [p EXCEPT !.alt = Max(p.dest_alt, p.alt - rate)]
            ELSE p

normalize_hdg(h) == h % 360
shortest_turn_dir(a, b) == IF (b - a + 360) % 360 <= 180 THEN 1 ELSE -1

(* The heading is put on the target at once *)
turn_towards_at_once(p, target, dt) == [p EXCEPT !.hdg = normalize_hdg(target)]

(* Lines 428-439 *)
turn_towards(p, target, dt) ==
    LET cur == normalize_hdg(p.hdg)
        tgt == normalize_hdg(target)
        sign == IF p.turn_dir_forced = W("R") THEN 1
                ELSE IF p.turn_dir_forced = W("L") THEN -1
                ELSE shortest_turn_dir(cur, tgt)
        diff == Abs((tgt - cur + 360) % 360)
    IN [p EXCEPT !.hdg = IF diff < TURN_RATE_DEG_PER_SEC * dt THEN tgt
                         ELSE normalize_hdg(p.hdg + sign * TURN_RATE_DEG_PER_SEC * dt)]

(* Lines 315-317 and 322-323 *)
SpeedStage(p, dt) ==
    LET p1 == IF p.dest_spd # NoInt
              THEN [p EXCEPT !.spd = p.spd + Max(Min(p.dest_spd - p.spd, SPEED_CHANGE_RATE_KTS_PER_SEC * dt),
                                                 -(SPEED_CHANGE_RATE_KTS_PER_SEC * dt))]
              ELSE p
    IN IF p1.state \in {"LANDING", "LANDED"} /\ p1.alt <= LOW_ALT_FT
       THEN [p1 EXCEPT !.spd = Max(0, p1.spd - LANDING_DECEL_RATE_KTS_PER_SEC * dt)]
       ELSE p1

(* heading_to_vec(hdg) = (sin hdg, -cos hdg): the signs of the components *)
VecSignX(hdg) == IF hdg % 360 \in {0, 180} THEN 0 ELSE IF hdg % 360 < 180 THEN 1 ELSE -1
VecSignY(hdg) == IF hdg % 360 \in {90, 270} THEN 0
                 ELSE IF hdg % 360 < 90 \/ hdg % 360 > 270 THEN -1 ELSE 1

(* The part of the airspace the model follows aircraft in *)
AreaX == {600, 900}
AreaY == {300}

(* Lines 325-329.  mv = <<mx, my>> says along which axes the aircraft      *)
(* crosses into the next grid cell during this update.                      *)
NextCell(v, sign, cells) ==
    LET beyond == {c \in cells : (c - v) * sign > 0}
    IN IF beyond = {} THEN v
       ELSE CHOOSE c \in beyond : \A d \in beyond : Abs(c - v) <= Abs(d - v)

MoveStage(p, dt, mv) ==
    IF p.spd > 0 /\ dt > 0
    THEN [p EXCEPT !.x = IF mv[1] = 1 THEN NextCell(p.x, VecSignX(p.hdg), AreaX) ELSE p.x,
                   !.y = IF mv[2] = 1 THEN NextCell(p.y, VecSignY(p.hdg), AreaY) ELSE p.y]
    ELSE p

(* Airport.register_arrival *)
register_arrival(arr, a) == IF a \in arr THEN arr ELSE arr \cup {a}

(* Lines 331-355 *)
RunwayStage(a, p, rws, arr) ==
    IF p.current_runway = None
    THEN [p |-> p, rws |-> rws, arr |-> arr]
    ELSE IF p.state = "TAKEOFF"
    THEN IF p.alt >= TAKEOFF_RELEASE_ALT_FT
            \/ (p.dest_alt > 0
                /\ p.alt * TAKEOFF_RELEASE_RATIO_DEN
                       > TAKEOFF_RELEASE_RATIO_NUM * p.dest_alt)
         THEN [p |-> [p EXCEPT !.current_runway = None, !.state = "AIRBORNE"],
               rws |-> [rws EXCEPT ![p.current_runway] = release(@)],
               arr |-> arr]
         ELSE [p |-> p, rws |-> rws, arr |-> arr]
    ELSE IF p.state = "LANDING" /\ p.alt <= LANDING_TOUCHDOWN_ALT_FT
    THEN LET touchdown == IF p.touchdown_time = NoInt THEN 0 ELSE p.touchdown_time
             p1 == [p EXCEPT !.touchdown_time = touchdown]
             arr1 == register_arrival(arr, a)
         IN IF p1.spd < LANDING_ROLLOUT_MIN_SPEED \/ touchdown > LANDING_ROLLOUT_MAX_TIME
            THEN [p |-> [p1 EXCEPT !.state = "LANDED", !.current_runway = None],
                  rws |-> IF rws[p.current_runway].active_aircraft = a
                          THEN [rws EXCEPT ![p.current_runway] = release(@)]
                          ELSE rws,
                  arr |-> arr1]
            ELSE [p |-> p1, rws |-> rws, arr |-> arr1]
    ELSE [p |-> p, rws |-> rws, arr |-> arr]

(* update(dt) of aircraft a: the aircraft, the runways and the arrivals    *)
(* after it, and whether it raised                                          *)
update(a, p, rws, arr, dt, delay, mv) ==
    LET c == CommandStage(a, p, rws, dt, delay)
    IN IF c.raised \/ c.ret
       THEN [p |-> c.p, rws |-> c.rws, arr |-> arr, raised |-> c.raised]
       ELSE IF c.p.on_runway /\ c.p.state \in {"TAKEOFF_PENDING", "ON_RUNWAY"}
       THEN [p |-> [c.p EXCEPT !.alt = RUNWAY_SPAWN_ALT_FT, !.spd = 0],
             rws |-> c.rws, arr |-> arr, raised |-> FALSE]
       ELSE LET p1 == AltitudeStage(c.p, dt)
                p2 == IF p1.dest_hdg # NoInt THEN turn_towards(p1, p1.dest_hdg, dt) ELSE p1
                p3 == SpeedStage(p2, dt)
                p4 == MoveStage(p3, dt, mv)
                r == RunwayStage(a, p4, c.rws, arr)
            IN [p |-> r.p, rws |-> r.rws, arr |-> r.arr, raised |-> FALSE]

----------------------------------------------------------------------------
(* CommandParser: src/atc/command_parser.py *)

(* The difference taken one way round only *)
angle_diff_one_way(a, b) == (a - b) % 360

(* _angle_diff *)
angle_diff(a, b) == Min((a - b) % 360, (b - a) % 360)

Handled(ack, cmds, skip) == [ack |-> ack, cmds |-> cmds, skip |-> skip]

(* _handle_takeoff without the check of the numbers *)
handle_takeoff_unchecked(tokens, i, rws) ==
    IF i + 3 > Len(tokens)
    THEN [ack |-> <<"takeoff missing params", "">>, cmds |-> <<>>, skip |-> 0]
    ELSE
    LET runway == get_runway(tokens[i + 1].w)
    IN IF runway = None
       THEN [ack |-> <<"runway not found", tokens[i + 1].w>>, cmds |-> <<>>, skip |-> 3]
       ELSE IF ~is_available(rws[runway])
       THEN [ack |-> <<"runway occupied", tokens[i + 1].w>>, cmds |-> <<>>, skip |-> 3]
       ELSE [ack |-> <<"takeoff clearance", tokens[i + 1].w>>,
             cmds |-> <<Command("TAKEOFF", <<tokens[i + 1], tokens[i + 2], tokens[i + 3]>>,
                                NoTok)>>,
             skip |-> 3]

(* _handle_takeoff(tokens, i, aircraft); tokens[i] is the T *)
handle_takeoff(tokens, i, rws) ==
    IF i + CMD_TAKEOFF_PARAMS_REQUIRED > Len(tokens)
    THEN Handled(<<"takeoff missing params", "">>, <<>>, 0)
    ELSE
    LET runway_name == tokens[i + 1]
        spd == tokens[i + 2]
        alt == tokens[i + 3]
        runway == get_runway(runway_name.w)
    IN IF ~isdigit(spd) \/ ~isdigit(alt)
       THEN Handled(<<"invalid takeoff", "">>, <<>>, CMD_TAKEOFF_PARAMS_REQUIRED)
       ELSE IF runway = None
       THEN Handled(<<"runway not found", runway_name.w>>, <<>>, CMD_TAKEOFF_PARAMS_REQUIRED)
       ELSE IF ~is_available(rws[runway])
       THEN Handled(<<"runway occupied", runway_name.w>>, <<>>, CMD_TAKEOFF_PARAMS_REQUIRED)
       ELSE Handled(<<"takeoff clearance", runway_name.w>>,
                    <<Command("TAKEOFF", <<runway_name, spd, alt>>, NoTok)>>,
                    CMD_TAKEOFF_PARAMS_REQUIRED)

(* _handle_landing(tokens, i, aircraft); tokens[i] is the L *)
handle_landing(tokens, i, p, rws) ==
    IF i + 1 > Len(tokens)
    THEN Handled(<<"landing missing runway", "">>, <<>>, 0)
    ELSE
    LET runway_name == tokens[i + 1]
        runway == get_runway(runway_name.w)
    IN IF runway = None
       THEN Handled(<<"runway not found", runway_name.w>>, <<>>, 1)
       ELSE IF ~is_available(rws[runway])
       THEN Handled(<<"runway occupied", runway_name.w>>, <<>>, 1)
       ELSE IF angle_diff(p.hdg, RunwayBearing[runway]) > LANDING_HEADING_OFFSET_DEG
       THEN Handled(<<"not aligned", runway_name.w>>, <<>>, 1)
       ELSE IF p.alt > LANDING_HEIGHT_OFFSET_FT
       THEN Handled(<<"too high", "">>, <<>>, 1)
       ELSE Handled(<<"land clearance", runway_name.w>>,
                    <<Command("LAND", <<runway_name>>, NoTok)>>, 1)

(* _handle_altitude_command: the command, and the aircraft after           *)
(* set_altitude_target(target_alt) and dest_alt = target_alt                *)
handle_altitude_command(p, arg, extra) ==
    LET target_alt == int(arg) * ALTITUDE_STEP_FT
    IN [cmds |-> <<Command("ALT", <<arg>>, extra)>>,
        ack |-> <<IF target_alt > p.alt THEN "climb and maintain"
                  ELSE IF target_alt < p.alt THEN "descend and maintain"
                  ELSE "maintain", "">>,
        p |-> [set_altitude_target(p, target_alt) EXCEPT !.dest_alt = target_alt]]

Parsed(cmds, acks, p, raised) ==
    [cmds |-> cmds, acks |-> acks, p |-> p, raised |-> raised]

(* _parse_segment(tokens, aircraft), from token i on (the while loop) *)
RECURSIVE parse_segment(_, _, _, _, _, _)
parse_segment(tokens, i, cmds, acks, p, rws) ==
    IF i > Len(tokens) THEN Parsed(cmds, acks, p, FALSE)
    ELSE
    LET token == tokens[i]
    IN CASE token = W("C") ->
              IF i + 1 > Len(tokens) THEN Parsed(cmds, acks, p, FALSE)
              ELSE
              LET arg == tokens[i + 1]
                  extra == IF i + 2 <= Len(tokens) /\ tokens[i + 2].w \in CMD_TURN_TOKENS
                           THEN tokens[i + 2] ELSE NoTok
                  j == IF extra # NoTok THEN i + 3 ELSE i + 2
              IN IF isdigit(arg) /\ Len(arg.d) = 3
                 THEN parse_segment(tokens, j,
                          Append(cmds, Command("HDG", <<arg>>, extra)),
                          Append(acks, <<"turn heading", extra.w>>), p, rws)
                 ELSE IF isdigit(arg)
                 THEN LET h == handle_altitude_command(p, arg, extra)
                      IN parse_segment(tokens, j, h.cmds, Append(acks, h.ack), h.p, rws)
                 ELSE parse_segment(tokens, j,
                          Append(cmds, Command("NAV", <<arg>>, extra)),
                          Append(acks, <<"cleared direct", arg.w>>), p, rws)
         [] token = W("S") ->
              IF i + 1 <= Len(tokens)
              THEN IF ~isdigit(tokens[i + 1])
                   THEN Parsed(cmds, acks, p, TRUE)
                   ELSE parse_segment(tokens, i + 2,
                            Append(cmds, Command("SPD", <<tokens[i + 1]>>, NoTok)),
                            Append(acks, <<"speed", "">>), p, rws)
              ELSE parse_segment(tokens, i + 1, cmds, acks, p, rws)
         [] token = W("H") ->
              LET fix == IF i + 1 <= Len(tokens) THEN <<tokens[i + 1]>> ELSE <<>>
              IN parse_segment(tokens, IF fix # <<>> THEN i + 2 ELSE i + 1,
                     Append(cmds, Command("HOLD", fix, NoTok)),
                     Append(acks, IF fix # <<>> THEN <<"hold fix", fix[1].w>>
                                  ELSE <<"hold position", "">>), p, rws)
         [] token = W("T") ->
              LET h == handle_takeoff(tokens, i, rws)
              IN parse_segment(tokens, i + h.skip + 1, cmds \o h.cmds,
                               Append(acks, h.ack), p, rws)
         [] token = W("L") ->
              LET h == handle_landing(tokens, i, p, rws)
              IN parse_segment(tokens, i + h.skip + 1, cmds \o h.cmds,
                               Append(acks, h.ack), p, rws)
         [] token = W("AI") ->
              LET mode == IF i + 1 <= Len(tokens)
                             /\ tokens[i + 1] \in {W("ON"), W("OFF"), N(<<1>>)}
                          THEN tokens[i + 1] ELSE NoTok
                  ai == IF mode = NoTok THEN ~p.ai_controlled
                        ELSE mode \in {W("ON"), N(<<1>>)}
              IN parse_segment(tokens, IF mode # NoTok THEN i + 2 ELSE i + 1, cmds,
                     Append(acks, <<IF ai THEN "AI enabled" ELSE "AI disabled", "">>),
                     [p EXCEPT !.ai_controlled = ai], rws)
         [] OTHER -> parse_segment(tokens, i + 1, cmds, acks, p, rws)

(* _build_responses: ctrl_msg and the acknowledgments *)
build_responses(callsign, cmds, ack_segments) ==
    [callsign |-> callsign,
     ctrl_msg |-> IF cmds = <<>> THEN <<"NO VALID COMMANDS", 0>>
                  ELSE <<"CLEARED", Len(cmds)>>,
     ack_msg |-> IF cmds = <<>> /\ ack_segments = <<>> THEN <<<<"No response.", "">>>>
                 ELSE ack_segments]

(* A callsign that matches no aircraft is taken for the first of the list *)
FindAircraftOrFirst(ps, callsign) ==
    IF \E a \in DOMAIN ps : ps[a].callsign = callsign
    THEN CHOOSE a \in DOMAIN ps :
             /\ ps[a].callsign = callsign
             /\ \A b \in DOMAIN ps : ps[b].callsign = callsign => a <= b
    ELSE 1

(* next((p for p in planes if p.callsign.upper() == callsign.upper()), None) *)
FindAircraft(ps, callsign) ==
    IF \E a \in DOMAIN ps : ps[a].callsign = callsign
    THEN CHOOSE a \in DOMAIN ps :
             /\ ps[a].callsign = callsign
             /\ \A b \in DOMAIN ps : ps[b].callsign = callsign => a <= b
    ELSE NoPlane

(* The queue extended and the aircraft left to the AI *)
TakeControlQueueOnly(p, cmds) ==
    IF cmds # <<>> THEN [p EXCEPT !.command_queue = @ \o cmds] ELSE p

(* The new commands put in the place of those waiting *)
TakeControlClearsQueue(p, cmds) ==
    IF cmds # <<>>
    THEN [p EXCEPT !.ai_controlled = FALSE, !.command_queue = cmds]
    ELSE p

(* parse, lines 60-67: a segment that yields commands takes the aircraft  *)
(* from the AI and extends its queue                                       *)
TakeControl(p, cmds) ==
    IF cmds # <<>>
    THEN [p EXCEPT !.ai_controlled = FALSE, !.command_queue = @ \o cmds]
    ELSE p

ParseOut(ps, res, raised) == [planes |-> ps, results |-> res, raised |-> raised]

(* parse(text, planes), from segment k on (the for loop).  text is the     *)
(* list of its non-empty segments, each the list of its tokens.             *)
RECURSIVE parse_segments(_, _, _, _, _)
parse_segments(text, k, ps, rws, res) ==
    IF k > Len(text) THEN ParseOut(ps, res, FALSE)
    ELSE
    LET parts == text[k]
        callsign == parts[1].w
        a == FindAircraft(ps, callsign)
    IN IF a = NoPlane
       THEN parse_segments(text, k + 1, ps, rws,
                Append(res, [callsign |-> callsign, ctrl_msg |-> <<"NOT FOUND", 0>>,
                             ack_msg |-> <<<<"not found", callsign>>>>]))
       ELSE
       LET seg == parse_segment(Tail(parts), 1, <<>>, <<>>, ps[a], rws)
       IN IF seg.raised THEN ParseOut([ps EXCEPT ![a] = seg.p], res, TRUE)
          ELSE
          LET p1 == TakeControl(seg.p, seg.cmds)
          IN parse_segments(text, k + 1, [ps EXCEPT ![a] = p1], rws,
                 Append(res, build_responses(callsign, seg.cmds, seg.acks)))

parse(text, ps, rws) ==
    IF text = <<>>
    THEN ParseOut(ps, <<[callsign |-> "", ctrl_msg |-> <<"NO COMMAND", 0>>,
                         ack_msg |-> <<<<"no input", "">>>>]>>, FALSE)
    ELSE parse_segments(text, 1, ps, rws, <<>>)

----------------------------------------------------------------------------
(* Conflict detection: src/atc/utils.py, Aircraft.distance_nm / vert_sep *)

(* a.distance_nm(b) < nm, compared in squares: px_to_nm(sqrt(dx*dx + dy*dy)) *)
DistanceBelowNm(a, b, nm) ==
    LET dx == a.x - b.x
        dy == a.y - b.y
    IN (dx * dx + dy * dy) * NM_PER_PX_NUM * NM_PER_PX_NUM
           < nm * nm * NM_PER_PX_DEN * NM_PER_PX_DEN

vert_sep(a, b) == Abs(a.alt - b.alt)

(* A pair is reported as soon as it is close on one of the two axes *)
RECURSIVE ConflictsOfEitherAxis(_, _, _, _)
ConflictsOfEitherAxis(ps, i, j, res) ==
    IF j > Len(ps) THEN res
    ELSE IF ps[i].state = "LANDED" \/ ps[j].state = "LANDED"
    THEN ConflictsOfEitherAxis(ps, i, j + 1, res)
    ELSE IF DistanceBelowNm(ps[i], ps[j], SAFE_LAT_NM)
            \/ vert_sep(ps[i], ps[j]) < SAFE_VERT_FT
    THEN ConflictsOfEitherAxis(ps, i, j + 1, Append(res, <<i, j, vert_sep(ps[i], ps[j])>>))
    ELSE ConflictsOfEitherAxis(ps, i, j + 1, res)

(* The inner loop of check_conflicts: for b in planes[i + 1:], from j on *)
RECURSIVE ConflictsOf(_, _, _, _)
ConflictsOf(ps, i, j, res) ==
    IF j > Len(ps) THEN res
    ELSE IF ps[i].state = "LANDED" \/ ps[j].state = "LANDED"
    THEN ConflictsOf(ps, i, j + 1, res)
    ELSE IF DistanceBelowNm(ps[i], ps[j], SAFE_LAT_NM)
            /\ vert_sep(ps[i], ps[j]) < SAFE_VERT_FT
    THEN ConflictsOf(ps, i, j + 1, Append(res, <<i, j, vert_sep(ps[i], ps[j])>>))
    ELSE ConflictsOf(ps, i, j + 1, res)

(* Every aircraft is compared with the whole list *)
RECURSIVE ConflictsFromEveryPair(_, _, _)
ConflictsFromEveryPair(ps, i, res) ==
    IF i > Len(ps) THEN res
    ELSE ConflictsFromEveryPair(ps, i + 1, ConflictsOf(ps, i, 1, res))

(* The outer loop: for i, a in enumerate(planes), from i on *)
RECURSIVE ConflictsFrom(_, _, _)
ConflictsFrom(ps, i, res) ==
    IF i > Len(ps) THEN res
    ELSE ConflictsFrom(ps, i + 1, ConflictsOf(ps, i, i + 1, res))

(* check_conflicts(planes): the list of (a, b, lat, vert), a and b given   *)
(* by their places in the list (lat is left out)                            *)
check_conflicts(ps) == ConflictsFrom(ps, 1, <<>>)

----------------------------------------------------------------------------
(* Quadtree: src/atc/ai/quadtree.py *)

(* No tree: the index lives only within a pass of the controller *)
NoTree == <<>>

(* Quadtree(x, y, w, h, cap, depth, max_depth): children = <<>> is None *)
Quadtree(x, y, w, h, cap, depth, max_depth) ==
    [x |-> x, y |-> y, w |-> w, h |-> h, cap |-> cap, depth |-> depth,
     max_depth |-> max_depth, points |-> <<>>, children |-> <<>>]

InBounds(t, x, y) == t.x <= x /\ x <= t.x + t.w /\ t.y <= y /\ y <= t.y + t.h

RECURSIVE insert(_, _, _, _)
RECURSIVE InsertChild(_, _, _, _, _)
RECURSIVE Reinsert(_, _)

(* any(child.insert(x, y, obj) for child in self.children), from child k   *)
(* on: the first child that takes the point                                 *)
InsertChild(t, k, x, y, obj) ==
    IF k > Len(t.children) THEN [ok |-> FALSE, t |-> t]
    ELSE LET r == insert(t.children[k], x, y, obj)
         IN IF r.ok THEN [ok |-> TRUE, t |-> [t EXCEPT !.children[k] = r.t]]
            ELSE InsertChild(t, k + 1, x, y, obj)

(* _split, the loop over self.points from point n on *)
Reinsert(t, n) ==
    IF n > Len(t.points) THEN t
    ELSE Reinsert(InsertChild(t, 1, t.points[n][1], t.points[n][2], t.points[n][3]).t,
                  n + 1)

(* A node drops the points it holds without passing them on *)
split_dropping(t) ==
    LET hw == t.w \div 2
        hh == t.h \div 2
    IN [t EXCEPT !.points = <<>>,
                 !.children =
                     <<Quadtree(t.x, t.y, hw, hh, t.cap, t.depth + 1, t.max_depth),
                       Quadtree(t.x + hw, t.y, hw, hh, t.cap, t.depth + 1, t.max_depth),
                       Quadtree(t.x, t.y + hh, hw, hh, t.cap, t.depth + 1, t.max_depth),
                       Quadtree(t.x + hw, t.y + hh, hw, hh, t.cap, t.depth + 1,
                                t.max_depth)>>]

(* _split: four children of half the width and height (the nodes that     *)
(* split in the model have even sizes), the points handed down to them     *)
split(t) ==
    LET hw == t.w \div 2
        hh == t.h \div 2
        parent == [t EXCEPT !.children =
                     <<Quadtree(t.x, t.y, hw, hh, t.cap, t.depth + 1, t.max_depth),
                       Quadtree(t.x + hw, t.y, hw, hh, t.cap, t.depth + 1, t.max_depth),
                       Quadtree(t.x, t.y + hh, hw, hh, t.cap, t.depth + 1, t.max_depth),
                       Quadtree(t.x + hw, t.y + hh, hw, hh, t.cap, t.depth + 1,
                                t.max_depth)>>]
    IN [Reinsert(parent, 1) EXCEPT !.points = <<>>]

(* insert that takes a point beyond the capacity nowhere: a full node at   *)
(* max_depth refuses it                                                     *)
insert_refusing_when_full(t, x, y, obj) ==
    IF ~InBounds(t, x, y) THEN [ok |-> FALSE, t |-> t]
    ELSE IF t.children = <<>> /\ Len(t.points) < t.cap
    THEN [ok |-> TRUE, t |-> [t EXCEPT !.points = Append(@, <<x, y, obj>>)]]
    ELSE IF t.depth >= t.max_depth THEN [ok |-> FALSE, t |-> t]
    ELSE InsertChild(IF t.children = <<>> THEN split(t) ELSE t, 1, x, y, obj)

(* insert(x, y, obj): the value returned and the tree after the call *)
insert(t, x, y, obj) ==
    IF ~InBounds(t, x, y) THEN [ok |-> FALSE, t |-> t]
    ELSE IF (t.children = <<>> /\ Len(t.points) < t.cap) \/ t.depth >= t.max_depth
    THEN [ok |-> TRUE, t |-> [t EXCEPT !.points = Append(@, <<x, y, obj>>)]]
    ELSE InsertChild(IF t.children = <<>> THEN split(t) ELSE t, 1, x, y, obj)

RECURSIVE query(_, _, _, _)
RECURSIVE QueryChildren(_, _, _, _, _)

QueryChildren(t, k, x, y, r) ==
    IF k > Len(t.children) THEN <<>>
    ELSE query(t.children[k], x, y, r) \o QueryChildren(t, k + 1, x, y, r)

(* _query pruning the nodes whose closest point is at the radius, not only *)
(* those beyond it                                                          *)
query_pruning_at_radius(t, x, y, r) ==
    LET cx == Max(t.x, Min(x, t.x + t.w))
        cy == Max(t.y, Min(y, t.y + t.h))
    IN IF (cx - x) * (cx - x) + (cy - y) * (cy - y) >= r * r THEN <<>>
       ELSE IF t.children = <<>>
       THEN LET near(n) == (t.points[n][1] - x) * (t.points[n][1] - x)
                             + (t.points[n][2] - y) * (t.points[n][2] - y) <= r * r
                RECURSIVE Found(_)
                Found(n) == IF n > Len(t.points) THEN <<>>
                            ELSE (IF near(n) THEN <<t.points[n][3]>> ELSE <<>>)
                                     \o Found(n + 1)
            IN Found(1)
       ELSE QueryChildren(t, 1, x, y, r)

(* _query(x, y, r, out): the objects it appends to out *)
query(t, x, y, r) ==
    LET cx == Max(t.x, Min(x, t.x + t.w))
        cy == Max(t.y, Min(y, t.y + t.h))
    IN IF (cx - x) * (cx - x) + (cy - y) * (cy - y) > r * r THEN <<>>
       ELSE IF t.children = <<>>
       THEN LET near(n) == (t.points[n][1] - x) * (t.points[n][1] - x)
                             + (t.points[n][2] - y) * (t.points[n][2] - y) <= r * r
                RECURSIVE Found(_)
                Found(n) == IF n > Len(t.points) THEN <<>>
                            ELSE (IF near(n) THEN <<t.points[n][3]>> ELSE <<>>)
                                     \o Found(n + 1)
            IN Found(1)
       ELSE QueryChildren(t, 1, x, y, r)

query_radius(t, x, y, r) == query(t, x, y, r)

----------------------------------------------------------------------------
(* AIController: src/atc/ai/controller.py *)

(* nm_to_px(SAFE_LAT_NM * 0.8) and nm_to_px(AI_APPROACH_ARM_DIST_NM), squared *)
DeconflictRadiusPx == (SAFE_LAT_NM * 8 * NM_PER_PX_DEN) \div (10 * NM_PER_PX_NUM)

(* qt = Quadtree(0, 0, WIDTH, HEIGHT, cap=8, max_depth=8); for p in planes: *)
(* qt.insert(p.x, p.y, p), from aircraft n on                              *)
RECURSIVE InsertAll(_, _, _)
InsertAll(t, ps, n) ==
    IF n > Len(ps) THEN t
    ELSE InsertAll(insert(t, ps[n].x, ps[n].y, n).t, ps, n + 1)

BuildIndex(ps) == InsertAll(Quadtree(0, 0, WIDTH, HEIGHT, 8, 0, 8), ps, 1)

(* nearby = qt.query_radius(ac.x, ac.y, r) without ac itself *)
Nearby(ps, a) ==
    LET found == query_radius(BuildIndex(ps), ps[a].x, ps[a].y, DeconflictRadiusPx)
    IN {found[n] : n \in DOMAIN found} \ {a}

(* The runways in the order of the list all_runways() *)
RunwayList == <<"27L", "27R">>

AlignDiff(rw, p) == Abs((((RunwayBearing[rw] - p.hdg) + 540) % 360) - 180)

(* _choose_runway_for: the best aligned available runway (the first of the *)
(* list among equals), if the aircraft is within the arming distance of it *)
choose_runway_for(p, rws) ==
    LET candidates == {i \in 1..Len(RunwayList) :
                          /\ is_available(rws[RunwayList[i]])
                          /\ AlignDiff(RunwayList[i], p) <= AI_ALIGN_ALLOWED_DIFF_DEG}
    IN IF candidates = {} THEN None
       ELSE
       LET best == RunwayList[CHOOSE i \in candidates :
                       \A j \in candidates :
                           \/ AlignDiff(RunwayList[i], p) < AlignDiff(RunwayList[j], p)
                           \/ (AlignDiff(RunwayList[i], p) = AlignDiff(RunwayList[j], p)
                               /\ i <= j)]
           dx == p.x - RunwayX[best]
           dy == p.y - RunwayY[best]
       IN IF (dx * dx + dy * dy) * NM_PER_PX_NUM * NM_PER_PX_NUM
                 <= AI_APPROACH_ARM_DIST_NM * AI_APPROACH_ARM_DIST_NM
                      * NM_PER_PX_DEN * NM_PER_PX_DEN
          THEN best ELSE None

(* The commands one decision appends to the queue of aircraft a; sign and  *)
(* fix are the random draws                                                 *)
AIDecision(ps, rws, a, sign, fix) ==
    IF Nearby(ps, a) # {}
    THEN <<Command("HDG", <<fmt03d((ps[a].hdg + AI_DECONFLICT_TURN * sign) % 180)>>, NoTok)>>
    ELSE LET target == choose_runway_for(ps[a], rws)
         IN IF target # None
            THEN <<Command("HDG", <<fmt03d(RunwayBearing[target])>>, NoTok),
                   Command("SPD", <<str(AI_LANDING_SPEED)>>, NoTok),
                   Command("ALT", <<N(<<0>>)>>, NoTok),
                   Command("LAND", <<W(target)>>, NoTok)>>
            ELSE <<Command("NAV", <<W(fix)>>, NoTok)>>

(* The test of the timer alone, the autonomous flag not looked at *)
AIDecidesWithoutFlag(p) == p.ai_next_decision <= 0

(* Whether update takes a decision for aircraft a *)
AIDecides(p) == p.ai_controlled /\ p.ai_next_decision <= 0

(* AIController.update without line 37: the time of the next decision is   *)
(* left as it is                                                            *)
ai_update_without_timer(ps, rws, sign, fix) ==
    [a \in DOMAIN ps |->
        IF AIDecides(ps[a])
        THEN [ps[a] EXCEPT !.command_queue =
                               @ \o AIDecision(ps, rws, a, sign[a], fix[a])]
        ELSE ps[a]]

(* AIController.update(planes, runways, dt) *)
ai_update(ps, rws, sign, fix) ==
    [a \in DOMAIN ps |->
        IF AIDecides(ps[a])
        THEN [ps[a] EXCEPT !.ai_next_decision = AI_DECISION_PERIOD,
                           !.command_queue = @ \o AIDecision(ps, rws, a, sign[a], fix[a])]
        ELSE ps[a]]

----------------------------------------------------------------------------
(* The simulation: src/main.py *)

Planes == {1, 2}
Callsign == [a \in Planes |-> IF a = 1 THEN "BA001" ELSE "U2002"]

(* state["ai_enabled"] *)
AI_TRAFFIC == TRUE

(* spawn_random_plane: an aircraft waiting on a runway, ...                 *)
SpawnOnRunway(a, rw) ==
    [Aircraft(Callsign[a], 900, 300, RunwayBearing[rw], 0, RUNWAY_SPAWN_ALT_FT,
              DEFAULT_DEST_ALT)
        EXCEPT !.on_runway = TRUE, !.state = "TAKEOFF_PENDING",
               !.dest_alt = RUNWAY_SPAWN_ALT_FT]

(* ... or an airborne one, here once it has flown into the area *)
SpawnAirborne(a, x, hdg, alt) ==
    Aircraft(Callsign[a], x, 300, hdg, 160, alt, DEFAULT_DEST_ALT)

Init ==
    /\ planes = [a \in Planes |-> IF a = 1 THEN SpawnOnRunway(a, "27L")
                                  ELSE SpawnAirborne(a, 600, 270, DEFAULT_DEST_ALT)]
    /\ runways = [r \in RunwayNames |-> NewRunway]
    /\ arrivals = {}
    /\ fatal_error = FALSE
    /\ running = TRUE
    /\ results = <<>>
    /\ pc = "ai"
    /\ cursor = 0
    /\ calls = <<>>
    /\ conflicts = <<>>
    /\ qt = NoTree

(* The operator's input lines of the model: takeoff clearances for the     *)
(* aircraft waiting on the ground, landing clearances and the autonomy     *)
(* switch for the airborne one                                              *)
Texts ==
    {<<<<W(Callsign[1]), W("T"), W(r), N(<<1, 6, 0>>), N(<<1, 0, 0, 0>>)>>>> :
        r \in RunwayNames}
    \cup {<<<<W(Callsign[2]), W("L"), W(r)>>>> : r \in RunwayNames}
    \cup {<<<<W(Callsign[2]), W("AI"), W("ON")>>>>}

(* step units of wall-clock time pass *)
Elapse(t, step, cap) == IF t = NoInt THEN NoInt ELSE Min(t + step, cap)

Elapsed(ps, step) ==
    [a \in DOMAIN ps |->
        [ps[a] EXCEPT
            !.alt_start_time =
                Elapse(@, step, Max(ps[a].alt_duration,
                                    ALTITUDE_INTERPOLATION_MIN_DURATION)
                                    + ALTITUDE_STABILISE_WINDOW),
            !.alt_stabilise_start = Elapse(@, step, ALTITUDE_STABILISE_WINDOW),
            !.touchdown_time = Elapse(@, step, LANDING_ROLLOUT_MAX_TIME + 1),
            !.ai_next_decision = Max(@ - step, 0)]]

(* The head of an iteration of the loop (main.py, lines 318-324):          *)
(* clock.tick, then ai.update                                               *)
AIUpdate(step, sign, fix) ==
    /\ running
    /\ pc = "ai"
    /\ planes' = IF AI_TRAFFIC
                 THEN ai_update(Elapsed(planes, step), runways, sign, fix)
                 ELSE Elapsed(planes, step)
    /\ qt' = IF AI_TRAFFIC THEN BuildIndex(planes) ELSE qt
    /\ pc' = "events"
    /\ UNCHANGED <<runways, arrivals, fatal_error, running, results, cursor, calls,
                 conflicts>>

(* The operator gives an aircraft new commands once it has executed those  *)
(* it was given                                                             *)
Attended(ps, qs) ==
    \A a \in DOMAIN ps :
        ps[a].command_queue # qs[a].command_queue => ps[a].command_queue = <<>>

(* An event of the iteration: the operator enters a line                   *)
(* (handle_keyboard_input, main.py, line 100).  An exception of parse      *)
(* leaves main through the event loop.                                      *)
Enter(text) ==
    /\ running
    /\ pc = "events"
    /\ LET out == parse(text, planes, runways)
       IN /\ planes' = out.planes
          /\ results' = out.results
          /\ running' = ~out.raised
    /\ UNCHANGED <<runways, arrivals, fatal_error, pc, cursor, calls, conflicts, qt>>

Input(text) ==
    /\ Attended(planes, parse(text, planes, runways).planes)
    /\ Enter(text)

(* update_simulation with the spatial index rebuilt from the updated       *)
(* positions before the conflicts are detected                              *)
UpdateRebuildingIndex(a, dt, delay, mv) ==
    /\ running
    /\ \/ pc = "events" /\ a = 1
       \/ pc = "update" /\ a = cursor
    /\ LET u == update(a, planes[a], runways, arrivals,
                       IF fatal_error THEN 0 ELSE dt, delay, mv)
       IN /\ planes' = [planes EXCEPT ![a] = u.p]
          /\ runways' = u.rws
          /\ arrivals' = u.arr
          /\ fatal_error' = (fatal_error \/ u.raised)
          /\ IF u.raised \/ a = Cardinality(Planes)
             THEN /\ pc' = "ai" /\ cursor' = 0
                  /\ qt' = BuildIndex(planes')
                  /\ conflicts' = check_conflicts(planes')
             ELSE /\ pc' = "update" /\ cursor' = a + 1
                  /\ UNCHANGED <<conflicts, qt>>
    /\ results' = <<>>
    /\ UNCHANGED <<running, calls>>

(* plane.update(dt) of update_simulation (main.py, lines 198-206), for the *)
(* aircraft a the for loop has come to: dt is 0 once a fatal error is      *)
(* recorded; an exception ends the loop and is recorded; after the loop    *)
(* the conflicts are detected                                               *)
Update(a, dt, delay, mv) ==
    /\ running
    /\ \/ pc = "events" /\ a = 1
       \/ pc = "update" /\ a = cursor
    /\ LET u == update(a, planes[a], runways, arrivals,
                       IF fatal_error THEN 0 ELSE dt, delay, mv)
       IN /\ planes' = [planes EXCEPT ![a] = u.p]
          /\ runways' = u.rws
          /\ arrivals' = u.arr
          /\ fatal_error' = (fatal_error \/ u.raised)
          /\ IF u.raised \/ a = Cardinality(Planes)
             THEN /\ pc' = "ai" /\ cursor' = 0
                  /\ conflicts' = check_conflicts(planes')
             ELSE /\ pc' = "update" /\ cursor' = a + 1
                  /\ UNCHANGED conflicts
    /\ results' = <<>>
    /\ UNCHANGED <<running, calls, qt>>

(* The time steps, command delays, cell crossings and clock steps of the model *)
Dts == {30}
Moves == {<<0, 0>>}
ClockSteps == {2}

Next ==
    \/ \E step \in ClockSteps, sign \in [Planes -> {1, -1}], fix \in [Planes -> {"DPA"}] :
           AIUpdate(step, sign, fix)
    \/ \E text \in Texts : Input(text)
    \/ \E a \in Planes, dt \in Dts, delay \in COMMAND_DELAY_RANGE, mv \in Moves :
           Update(a, dt, delay, mv)

Spec == Init /\ [][Next]_vars

----------------------------------------------------------------------------
(* The interpreter on its own: the operator's lines parsed against the      *)
(* aircraft and runway situations the instructions distinguish              *)

(* Headings on, at and beyond the alignment tolerance of the bearing 270,   *)
(* altitudes at and around the landing ceiling                              *)

TakeoffCommand(r) == Command("TAKEOFF", <<W(r), N(<<1, 6, 0>>), N(<<1, 0, 0, 0>>)>>, NoTok)

InitParse ==
    \E hdg \in {270, 330, 331, 210, 209, 90}, alt \in {1000, 3000, 3001, 5000},
       ai \in BOOLEAN, rolling \in BOOLEAN :
        LET free == [r \in RunwayNames |-> NewRunway]
            done == ExecTakeoff(2, SpawnOnRunway(2, "27R"), free, TakeoffCommand("27R"))
        IN /\ planes = [a \in Planes |->
                           IF a = 1
                           THEN [SpawnAirborne(1, 600, hdg, alt) EXCEPT !.ai_controlled = ai]
                           ELSE IF rolling THEN done.p ELSE SpawnOnRunway(2, "27R")]
           /\ runways = IF rolling THEN done.rws ELSE free
    /\ arrivals = {}
    /\ fatal_error = FALSE
    /\ running = TRUE
    /\ results = <<>>
    /\ pc = "events"
    /\ cursor = 0
    /\ calls = <<>>
    /\ conflicts = <<>>
    /\ qt = NoTree

(* The arguments given after T and after L *)
TakeoffArgs ==
    {<<W(r), N(<<1, 6, 0>>), N(<<1, 0, 0, 0>>)>> : r \in RunwayNames \cup {"09"}}
    \cup {<<>>, <<W("27L")>>, <<W("27L"), N(<<1, 6, 0>>)>>,
          <<W("27L"), W("FAST"), N(<<1, 0, 0, 0>>)>>,
          <<W("27L"), N(<<1, 6, 0>>), W("HIGH")>>}

LandingArgs == {<<W(r)>> : r \in RunwayNames \cup {"09"}} \cup {<<>>}

AutonomyArgs == {<<W("AI")>>, <<W("AI"), W("ON")>>, <<W("AI"), W("OFF")>>}

Line(a, instructions) == <<<<W(Callsign[a])>> \o instructions>>

ParseTexts ==
    {Line(1, <<W("T")>> \o args) : args \in TakeoffArgs}
    \cup {Line(1, <<W("L")>> \o args) : args \in LandingArgs}
    \cup {Line(1, args) : args \in AutonomyArgs}
    \cup {Line(1, <<W("AI"), W("ON"), W("L"), W("27L")>>),
          Line(1, <<W("L"), W("27L"), W("AI"), W("ON")>>),
          Line(1, <<W("IDENT")>>),
          Line(1, <<W("S"), N(<<2, 0, 0>>)>>),
          Line(1, <<W("S"), W("FAST")>>),
          Line(1, <<W("C"), N(<<5>>)>>),
          Line(1, <<W("C"), N(<<0, 9, 0>>), W("C"), N(<<5>>)>>),
          Line(1, <<W("C"), N(<<5>>), W("S"), N(<<2, 0, 0>>)>>),
          <<<<W("XX999"), W("L"), W("27L")>>>>,
          <<<<W("XX999"), W("C"), N(<<5>>)>>>>}

(* The operator enters a line while the aircraft have fewer than MaxQueued *)
(* commands waiting                                                         *)
MaxQueued == 2

ParseLine(text) ==
    /\ \A a \in Planes : Len(planes[a].command_queue) < MaxQueued
    /\ Enter(text)

NextParse == \E text \in ParseTexts : ParseLine(text)

SpecParse == InitParse /\ [][NextParse]_vars

----------------------------------------------------------------------------
(* The runway registry on its own: callers of Runway.occupy and             *)
(* Runway.release, each call recorded with the runway before and after it   *)

MaxCalls == 3

InitRunway ==
    /\ planes = [a \in Planes |-> SpawnOnRunway(a, "27L")]
    /\ runways = [r \in RunwayNames |-> NewRunway]
    /\ arrivals = {}
    /\ fatal_error = FALSE
    /\ running = TRUE
    /\ results = <<>>
    /\ pc = "events"
    /\ cursor = 0
    /\ calls = <<>>
    /\ conflicts = <<>>
    /\ qt = NoTree

CallOccupy(r, a) ==
    /\ Len(calls) < MaxCalls
    /\ runways' = [runways EXCEPT ![r] = occupy(@, a)]
    /\ calls' = Append(calls, [op |-> "occupy", runway |-> r, aircraft |-> a,
                               before |-> runways[r], after |-> runways'[r]])
    /\ UNCHANGED <<planes, arrivals, fatal_error, running, results, pc, cursor,
                 conflicts, qt>>

CallRelease(r) ==
    /\ Len(calls) < MaxCalls
    /\ runways' = [runways EXCEPT ![r] = release(@)]
    /\ calls' = Append(calls, [op |-> "release", runway |-> r, aircraft |-> NoPlane,
                               before |-> runways[r], after |-> runways'[r]])
    /\ UNCHANGED <<planes, arrivals, fatal_error, running, results, pc, cursor,
                 conflicts, qt>>

NextRunway ==
    \/ \E r \in RunwayNames, a \in Planes : CallOccupy(r, a)
    \/ \E r \in RunwayNames : CallRelease(r)

SpecRunway == InitRunway /\ [][NextRunway]_vars

----------------------------------------------------------------------------
(* Conflict detection on its own: the end of update_simulation for three   *)
(* aircraft around the two separation thresholds                            *)

Traffic == 1..3
TrafficCallsign == <<"BA001", "U2002", "EZY03">>

(* Pixels: 12 (0.96 nm), 37 (2.96 nm), 38 (3.04 nm); feet: 500, 1000 apart *)
ConflictXs == {0, 12, 37, 38}
ConflictAlts == {3000, 3500, 4000}
ConflictStates == {"AIRBORNE", "LANDED"}

InitConflicts ==
    /\ \E xs \in [Traffic -> ConflictXs], alts \in [Traffic -> ConflictAlts],
          states \in [Traffic -> ConflictStates] :
           /\ xs[1] = 0
           /\ planes = [a \in Traffic |->
                           [Aircraft(TrafficCallsign[a], xs[a], 300, 270, 160, alts[a],
                                     alts[a])
                               EXCEPT !.state = states[a]]]
    /\ runways = [r \in RunwayNames |-> NewRunway]
    /\ arrivals = {}
    /\ fatal_error = FALSE
    /\ running = TRUE
    /\ results = <<>>
    /\ pc = "update"
    /\ cursor = 0
    /\ calls = <<>>
    /\ conflicts = <<>>
    /\ qt = NoTree

(* state["conflicts"] = check_conflicts(state["planes"]) (main.py, line 206) *)
DetectConflicts ==
    /\ pc = "update"
    /\ conflicts' = check_conflicts(planes)
    /\ pc' = "ai"
    /\ UNCHANGED <<planes, runways, arrivals, fatal_error, running, results, cursor,
                   calls, qt>>

NextConflicts == DetectConflicts

SpecConflicts == InitConflicts /\ [][NextConflicts]_vars

----------------------------------------------------------------------------
(* The quadtree on its own: a small tree that splits early, points on the  *)
(* corners, on the lines between the children and outside the root, each   *)
(* insert recorded with the value it returned                               *)

QtCap == 1
QtMaxDepth == 2
MaxInserts == 4
QtSize == 2 ^ QtMaxDepth
QtPoints == {<<0, 0>>, <<2, 2>>, <<2, 1>>, <<3, 1>>, <<4, 4>>, <<-1, 2>>}
QtRadii == {0, 1, 3}

InitQuadtree ==
    /\ planes = [a \in Planes |-> SpawnOnRunway(a, "27L")]
    /\ runways = [r \in RunwayNames |-> NewRunway]
    /\ arrivals = {}
    /\ fatal_error = FALSE
    /\ running = TRUE
    /\ results = <<>>
    /\ pc = "ai"
    /\ cursor = 0
    /\ calls = <<>>
    /\ conflicts = <<>>
    /\ qt = Quadtree(0, 0, QtSize, QtSize, QtCap, 0, QtMaxDepth)

CallInsert(x, y) ==
    /\ Len(calls) < MaxInserts
    /\ LET obj == Len(calls) + 1
           r == insert(qt, x, y, obj)
       IN /\ qt' = r.t
          /\ calls' = Append(calls, [op |-> "insert", x |-> x, y |-> y, obj |-> obj,
                                     ok |-> r.ok])
    /\ UNCHANGED <<planes, runways, arrivals, fatal_error, running, results, pc, cursor,
                   conflicts>>

NextQuadtree == \E pt \in QtPoints : CallInsert(pt[1], pt[2])

SpecQuadtree == InitQuadtree /\ [][NextQuadtree]_vars

----------------------------------------------------------------------------
(* Turning on its own: an aircraft turned towards its target heading tick  *)
(* after tick (update, lines 312-313), the target a little to the right, a *)
(* little to the left, and far to either side of the heading                *)

TurnHeadings == {10, 350}
TurnTargets == {12, 349, 100, 190}
TurnDirs == {NoTok, W("L"), W("R")}
TurnDts == {0, 1, 2, 30}

InitTurn ==
    /\ \E hdg \in TurnHeadings, tgt \in TurnTargets, forced \in TurnDirs :
           planes = [a \in Planes |->
                        [SpawnAirborne(a, 600, hdg, DEFAULT_DEST_ALT)
                            EXCEPT !.dest_hdg = tgt, !.turn_dir_forced = forced]]
    /\ runways = [r \in RunwayNames |-> NewRunway]
    /\ arrivals = {}
    /\ fatal_error = FALSE
    /\ running = TRUE
    /\ results = <<>>
    /\ pc = "update"
    /\ cursor = 1
    /\ calls = <<>>
    /\ conflicts = <<>>
    /\ qt = NoTree

Turn(a, dt) ==
    /\ planes[a].dest_hdg # NoInt
    /\ planes' = [planes EXCEPT ![a] = turn_towards(@, @.dest_hdg, dt)]
    /\ UNCHANGED <<runways, arrivals, fatal_error, running, results, pc, cursor, calls,
                   conflicts, qt>>

NextTurn == \E dt \in TurnDts : Turn(1, dt)

SpecTurn == InitTurn /\ [][NextTurn]_vars

----------------------------------------------------------------------------
(* Altitude changes on their own: the main loop with the operator giving   *)
(* altitudes to the aircraft waiting on the runway and to the airborne one *)
(* (small and large changes, and no change), and the takeoff clearance      *)

AltitudeTexts ==
    {Line(2, <<W("C"), N(<<n>>)>>) : n \in {1, 9}}
    \cup {Line(1, <<W("C"), N(<<5>>)>>),
          Line(1, <<W("T"), W("27L"), N(<<1, 6, 0>>), N(<<1, 0, 0, 0>>)>>)}

NextAltitude ==
    \/ \E step \in ClockSteps, sign \in [Planes -> {1}], fix \in [Planes -> {"DPA"}] :
           AIUpdate(step, sign, fix)
    \/ \E text \in AltitudeTexts : Input(text)
    \/ \E a \in Planes, dt \in Dts, delay \in COMMAND_DELAY_RANGE, mv \in Moves :
           Update(a, dt, delay, mv)

SpecAltitude == Init /\ [][NextAltitude]_vars

----------------------------------------------------------------------------
(* The controller on its own: one pass of AIController.update over         *)
(* aircraft 1, near runway 27L, near runway 27R, between the two or at the *)
(* western edge, and aircraft 2 far away, close by, close by beyond the    *)
(* western edge of the window, or rolling on one of the runways             *)

AIPositions == {<<800, 360>>, <<1100, 390>>, <<900, 375>>, <<10, 300>>}
AICompany == {"far", "near", "outside", "27L", "27R"}

InitAI ==
    /\ \E pos \in AIPositions, hdg \in {270, 300, 301, 90},
          timer \in {0, AI_DECISION_PERIOD}, ai \in BOOLEAN, company \in AICompany :
           LET free == [r \in RunwayNames |-> NewRunway]
               rolling == IF company \in RunwayNames
                          THEN ExecTakeoff(2, SpawnOnRunway(2, company), free,
                                           TakeoffCommand(company))
                          ELSE Result(SpawnOnRunway(2, "27L"), free, FALSE)
               one == [SpawnAirborne(1, pos[1], hdg, DEFAULT_DEST_ALT)
                          EXCEPT !.y = pos[2], !.ai_controlled = ai,
                                 !.ai_next_decision = timer]
               two == CASE company = "far" ->
                               SpawnAirborne(2, 600, 270, DEFAULT_DEST_ALT)
                        [] company = "near" ->
                               [SpawnAirborne(2, pos[1] + 20, 270, DEFAULT_DEST_ALT)
                                   EXCEPT !.y = pos[2]]
                        [] company = "outside" ->
                               SpawnAirborne(2, -10, 90, DEFAULT_DEST_ALT)
                        [] OTHER -> rolling.p
           IN /\ planes = [a \in Planes |-> IF a = 1 THEN one ELSE two]
              /\ runways = rolling.rws
    /\ arrivals = {}
    /\ fatal_error = FALSE
    /\ running = TRUE
    /\ results = <<>>
    /\ pc = "ai"
    /\ cursor = 0
    /\ calls = <<>>
    /\ conflicts = <<>>
    /\ qt = NoTree

NextAI ==
    \E step \in ClockSteps, sign \in [Planes -> {1, -1}], fix \in [Planes -> {"DPA", "EON"}] :
        AIUpdate(step, sign, fix)

SpecAI == InitAI /\ [][NextAI]_vars

----------------------------------------------------------------------------
(* The controller over several iterations of the loop: the situations of   *)
(* InitAI, then AI passes and aircraft updates in turn                      *)

NextDecisions ==
    \/ NextAI
    \/ \E a \in Planes, dt \in Dts, delay \in COMMAND_DELAY_RANGE, mv \in Moves :
           Update(a, dt, delay, mv)

SpecDecisions == InitAI /\ [][NextDecisions]_vars

----------------------------------------------------------------------------
(* The iterations of the loop with aircraft that move: the situations of   *)
(* InitAI, AI passes and updates in which an aircraft may cross into the   *)
(* next cell                                                                *)

NextTick ==
    \/ NextAI
    \/ \E a \in Planes, dt \in Dts, delay \in COMMAND_DELAY_RANGE,
          mv \in {<<0, 0>>, <<1, 0>>} :
           Update(a, dt, delay, mv)

SpecTick == InitAI /\ [][NextTick]_vars

----------------------------------------------------------------------------
(* The loop with an operator who gives holds, speeds and takeoff           *)
(* clearances: the commands of a line are executed one update after the    *)
(* other                                                                    *)

NextCommands ==
    \/ \E step \in ClockSteps, sign \in [Planes -> {1}], fix \in [Planes -> {"DPA"}] :
           AIUpdate(step, sign, fix)
    \/ \E text \in {Line(1, <<W("H")>>), Line(2, <<W("H")>>),
                    Line(2, <<W("H"), W("DPA")>>),
                    Line(2, <<W("S"), N(<<2, 0, 0>>), W("H"), W("DPA")>>),
                    Line(2, <<W("H"), W("DPA"), W("S"), N(<<1, 8, 0>>)>>),
                    Line(1, <<W("T"), W("27L"), N(<<1, 6, 0>>), N(<<1, 0, 0, 0>>)>>)} :
           Input(text)
    \/ \E a \in Planes, dt \in Dts, delay \in COMMAND_DELAY_RANGE,
          mv \in {<<0, 0>>, <<1, 0>>} :
           Update(a, dt, delay, mv)

SpecCommands == Init /\ [][NextCommands]_vars

----------------------------------------------------------------------------
(* The spawn factory and the interpreter: main fills the list with         *)
(* spawn_random_plane, which draws each callsign (airline and flight       *)
(* number) at random, here out of two; the operator's lines are then       *)
(* parsed against that list                                                 *)

InitSpawn ==
    /\ \E cs \in [Planes -> {Callsign[a] : a \in Planes}], hdg \in {270, 90} :
           planes = [a \in Planes |->
                        [SpawnAirborne(a, 600, hdg, DEFAULT_DEST_ALT)
                            EXCEPT !.callsign = cs[a]]]
    /\ runways = [r \in RunwayNames |-> NewRunway]
    /\ arrivals = {}
    /\ fatal_error = FALSE
    /\ running = TRUE
    /\ results = <<>>
    /\ pc = "events"
    /\ cursor = 0
    /\ calls = <<>>
    /\ conflicts = <<>>
    /\ qt = NoTree

SpecSpawn == InitSpawn /\ [][NextParse]_vars

----------------------------------------------------------------------------
(* Landings followed to their end: the main loop with the operator         *)
(* clearing the airborne aircraft to land on either runway and giving it   *)
(* an altitude.  The clock advances by one or two seconds an iteration and *)
(* the simulation by ten, so that a rollout lasts over several updates;    *)
(* the operator is free to enter nothing.                                   *)

NextLanding ==
    \/ \E step \in ClockSteps \cup {1}, sign \in [Planes -> {1}],
          fix \in [Planes -> {"DPA"}] :
           AIUpdate(step, sign, fix)
    \/ \E text \in {Line(2, <<W("L"), W("27L")>>), Line(2, <<W("L"), W("27R")>>),
                    Line(2, <<W("C"), N(<<5>>)>>)} :
           Input(text)
    \/ \E a \in Planes, dt \in {10}, delay \in COMMAND_DELAY_RANGE, mv \in Moves :
           Update(a, dt, delay, mv)

(* The while loop of main goes from one phase to the next as long as the   *)
(* program runs: a step that changes pc, an AI pass or an update, is taken *)
(* whenever it stays possible.                                              *)
SpecLanding ==
    /\ Init
    /\ [][NextLanding]_vars
    /\ WF_pc(running /\ pc' \in {"ai", "events", "update"})

----------------------------------------------------------------------------
(* Properties *)

(* The aircraft whose current_runway is r; whether r is free; the runway   *)
(* names an instruction may carry; the runway commands an aircraft may be  *)
(* given to execute                                                         *)
Holders(r) == {a \in Planes : planes[a].current_runway = r}
Free(r) == runways[r].status = "AVAILABLE" /\ runways[r].active_aircraft = NoPlane
RunwayTokens == RunwayNames \cup {"09"}
LandCommand(r) == Command("LAND", <<W(r)>>, NoTok)
RunwayCommands ==
    {TakeoffCommand(r) : r \in RunwayTokens} \cup {LandCommand(r) : r \in RunwayTokens}

(* C1: Runway mutual exclusion.  In every reachable state every runway is  *)
(* the current_runway of at most one aircraft, and that aircraft is the    *)
(* runway's active_aircraft; and the execution of a TAKEOFF or LAND        *)
(* command changes a runway only if the runway is available.               *)
RunwayMutualExclusion ==
    /\ \A r \in RunwayNames :
          /\ Cardinality(Holders(r)) <= 1
          /\ \A a \in Holders(r) : runways[r].active_aircraft = a
    /\ \A a \in Planes, cmd \in RunwayCommands, r \in RunwayNames :
          execute_command(a, planes[a], runways, cmd).rws[r] # runways[r] => Free(r)

(* Aircraft 1 holds a runway and aircraft 2 was refused one at execution *)
RunwayContended ==
    \E r \in RunwayNames :
        /\ Holders(r) = {1}
        /\ runways[r].active_aircraft = 1
        /\ planes[2].msg = "occupied"
        /\ planes[2].current_runway = None

(* C2: Runway status invariant.  In every reachable state a runway's       *)
(* status is OCCUPIED if and only if its active_aircraft is set.           *)
RunwayStatusInvariant ==
    \A r \in RunwayNames :
        runways[r].status = "OCCUPIED" <=> runways[r].active_aircraft # NoPlane

(* Aircraft 1 has taken off and released its runway; aircraft 2 holds 27L *)
RunwayTakenAndReleased ==
    /\ planes[1].state = "AIRBORNE"
    /\ planes[1].msg = "rolling"
    /\ runways["27L"] = [status |-> "OCCUPIED", active_aircraft |-> 2]
    /\ runways["27R"] = [status |-> "AVAILABLE", active_aircraft |-> NoPlane]

(* C3: Runway.occupy called on a runway that is not available does not     *)
(* succeed: the call leaves the runway's holder and status unchanged.      *)
OccupyRefusedWhenUnavailable ==
    \A i \in DOMAIN calls :
        (/\ calls[i].op = "occupy"
         /\ ~(/\ calls[i].before.status = "AVAILABLE"
              /\ calls[i].before.active_aircraft = NoPlane))
            => calls[i].after = calls[i].before

(* C4: An aircraft holds at most one runway, and only while it is in the   *)
(* state TAKEOFF or LANDING: no aircraft is the active_aircraft of two     *)
(* runways, and the active_aircraft of a runway is in TAKEOFF or LANDING.  *)
OneRunwayWhileRollingOrLanding ==
    \A a \in Planes :
        /\ Cardinality({r \in RunwayNames : runways[r].active_aircraft = a}) <= 1
        /\ \A r \in RunwayNames :
              runways[r].active_aircraft = a => planes[a].state \in {"TAKEOFF", "LANDING"}

(* The aircraft the update of this step belongs to *)
Updating == IF pc = "update" THEN cursor ELSE 1

(* C5: An aircraft never releases a runway it does not hold: whenever an   *)
(* update releases a runway (takeoff release or landing completion), the   *)
(* runway's active_aircraft before the release is the updating aircraft,   *)
(* and whenever an aircraft leaves the state TAKEOFF by the takeoff        *)
(* release (its current_runway is dropped), the runway it calls release()  *)
(* on records that aircraft as its active_aircraft.                        *)
ReleasesOnlyOwnRunway ==
    [][/\ \A r \in RunwayNames :
            (runways[r].active_aircraft # NoPlane /\ runways'[r].active_aircraft = NoPlane)
                => runways[r].active_aircraft = Updating
       /\ \A a \in Planes :
            (/\ planes[a].state = "TAKEOFF"
             /\ planes[a].current_runway # None
             /\ planes'[a].current_runway = None)
                => runways[planes[a].current_runway].active_aircraft = a]_vars

(* Aircraft 2 has landed and every runway is free again *)
LandedAndReleased ==
    /\ planes[2].state = "LANDED"
    /\ planes[2].current_runway = None
    /\ 2 \in arrivals
    /\ \A r \in RunwayNames : Free(r)

(* C6: Executing TAKEOFF rwy,160,1000 against an existing, available       *)
(* runway occupies the runway for the aircraft (status OCCUPIED,           *)
(* active_aircraft and current_runway set) and sets the state TAKEOFF, the *)
(* target speed 160, the target altitude 1000 and the target heading to    *)
(* the runway's bearing.                                                    *)
TakeoffExecution ==
    \A a \in Planes, r \in RunwayNames :
        Free(r) =>
            LET done == execute_command(a, planes[a], runways, TakeoffCommand(r))
            IN /\ ~done.raised
               /\ done.rws[r] = [status |-> "OCCUPIED", active_aircraft |-> a]
               /\ done.p.current_runway = r
               /\ done.p.state = "TAKEOFF"
               /\ done.p.dest_spd = 160
               /\ done.p.dest_alt = 1000
               /\ done.p.dest_hdg = 270

(* Aircraft 1 rolls on 27L after its takeoff command *)
RollingOnRunway ==
    /\ planes[1].state = "TAKEOFF"
    /\ planes[1].current_runway = "27L"
    /\ runways["27L"] = [status |-> "OCCUPIED", active_aircraft |-> 1]
    /\ planes[1].dest_spd = 160
    /\ planes[1].dest_alt = 1000
    /\ planes[1].dest_hdg = 270
    /\ planes[1].command_queue = <<>>

(* C7: Executing a TAKEOFF or LAND command that names a missing or a       *)
(* non-available runway changes nothing but the aircraft's message (state, *)
(* current_runway, targets and all runways stay as they are), and the      *)
(* update still removes the command from the queue.                         *)
RejectedRunwayCommand ==
    \A a \in Planes, cmd \in RunwayCommands :
        (cmd.value[1].w \notin RunwayNames \/ ~Free(cmd.value[1].w)) =>
            LET done == execute_command(a, planes[a], runways, cmd)
                queued == [planes[a] EXCEPT !.command_queue = <<cmd>> \o @]
            IN /\ ~done.raised
               /\ done.rws = runways
               /\ done.p.msg \in {"not found", "occupied"}
               /\ done.p = [planes[a] EXCEPT !.msg = done.p.msg]
               /\ \A dt \in Dts, delay \in COMMAND_DELAY_RANGE :
                     LET stage == CommandStage(a, queued, runways, dt, delay)
                     IN /\ ~stage.raised /\ ~stage.ret
                        /\ stage.p.command_queue = planes[a].command_queue

(* Aircraft 2 was refused 27L, which aircraft 1 holds, and flies on as it  *)
(* did, its queue empty                                                     *)
RejectedAtExecution ==
    /\ runways["27L"].active_aircraft = 1
    /\ planes[2].msg = "occupied"
    /\ planes[2].state = "AIRBORNE"
    /\ planes[2].dest_hdg = NoInt
    /\ planes[2].dest_spd = NoInt
    /\ planes[2].command_queue = <<>>

(* The heading's distance from the bearing round the compass *)
HeadingOff(h, b) == LET d == (h - b) % 360 IN IF d > 180 THEN 360 - d ELSE d

LandingAccepted(a, name) ==
    /\ name \in RunwayNames
    /\ Free(name)
    /\ HeadingOff(planes[a].hdg, RunwayBearing[name]) <= LANDING_HEADING_OFFSET_DEG
    /\ planes[a].alt <= LANDING_HEIGHT_OFFSET_FT

LandingRejections(a, name) ==
    IF name \notin RunwayNames THEN {"runway not found"}
    ELSE (IF Free(name) THEN {} ELSE {"runway occupied"})
         \cup (IF HeadingOff(planes[a].hdg, RunwayBearing[name]) > LANDING_HEADING_OFFSET_DEG
               THEN {"not aligned"} ELSE {})
         \cup (IF planes[a].alt > LANDING_HEIGHT_OFFSET_FT THEN {"too high"} ELSE {})

(* C8: For an instruction L RWY the interpreter appends a LAND command to  *)
(* the aircraft's queue if and only if the runway exists, is available,    *)
(* the heading is within the alignment tolerance of the bearing and the    *)
(* altitude is not above the landing ceiling; otherwise it appends nothing *)
(* and acknowledges with a rejection that applies (not found, occupied,    *)
(* not aligned, too high).                                                  *)
LandingClearanceRule ==
    \A a \in Planes, name \in RunwayTokens :
        LET out == parse(Line(a, <<W("L"), W(name)>>), planes, runways)
            ack == out.results[1].ack_msg
        IN /\ ~out.raised
           /\ Len(ack) = 1
           /\ IF LandingAccepted(a, name)
              THEN /\ out.planes[a].command_queue
                         = planes[a].command_queue \o <<LandCommand(name)>>
                   /\ ack[1] = <<"land clearance", name>>
              ELSE /\ out.planes[a].command_queue = planes[a].command_queue
                   /\ ack[1][1] \in LandingRejections(a, name)

(* Aircraft 1, at the tolerance from the bearing and at the ceiling, has   *)
(* been cleared to land                                                     *)
LandingClearedAtLimits ==
    /\ planes[1].hdg = 330
    /\ planes[1].alt = 3000
    /\ planes[1].command_queue = <<LandCommand("27L")>>
    /\ results # <<>>
    /\ results[1].ack_msg = <<<<"land clearance", "27L">>>>

(* C9: For an instruction T the interpreter appends a TAKEOFF command only *)
(* when the three arguments RWY SPD ALT follow, SPD and ALT are numbers    *)
(* and the runway exists and is available; with missing arguments, a       *)
(* parameter that is no number, an unknown or an occupied runway it        *)
(* appends no command and changes nothing of any aircraft.                 *)
TakeoffClearanceRule ==
    \A a \in Planes, args \in TakeoffArgs :
        LET out == parse(Line(a, <<W("T")>> \o args), planes, runways)
            valid == /\ Len(args) = 3
                     /\ args[2].w = "" /\ args[2].d # <<>>
                     /\ args[3].w = "" /\ args[3].d # <<>>
                     /\ args[1].w \in RunwayNames
                     /\ Free(args[1].w)
            queue == out.planes[a].command_queue
        IN /\ ~out.raised
           /\ (\E i \in DOMAIN queue :
                  i > Len(planes[a].command_queue) /\ queue[i].type = "TAKEOFF") => valid
           /\ ~valid => out.planes = planes

(* Aircraft 1 has been cleared for takeoff on 27L *)
TakeoffCleared ==
    /\ planes[1].command_queue = <<TakeoffCommand("27L")>>
    /\ results # <<>>
    /\ results[1].ctrl_msg = <<"CLEARED", 1>>
    /\ results[1].ack_msg = <<<<"takeoff clearance", "27L">>>>

(* Whether the segment of the line yielded a command; its tokens *)
Cleared(out) == out.results # <<>> /\ out.results[1].ctrl_msg[1] = "CLEARED"
Tokens(text) == Tail(text[1])
HasAutonomyToken(text) == \E i \in DOMAIN Tokens(text) : Tokens(text)[i] = W("AI")

(* C10 as stated: after a segment that yields a command the aircraft's     *)
(* ai_controlled is False, even if the segment holds AI ON; a segment that *)
(* yields no command does not clear the flag.                               *)
ManualOverrideAnySegment ==
    \A text \in ParseTexts :
        LET out == parse(text, planes, runways)
        IN /\ Cleared(out) => ~out.planes[1].ai_controlled
           /\ ~Cleared(out) =>
                 (planes[1].ai_controlled => out.planes[1].ai_controlled)

(* C10: after a segment that yields a command the aircraft's ai_controlled *)
(* is False, even if the segment holds AI ON; a segment that yields no     *)
(* command leaves the flag as it was unless it holds an AI token, and then *)
(* the flag is what the token asks for (AI ON sets it, AI OFF clears it,   *)
(* AI alone inverts it).                                                    *)
ManualOverride ==
    \A text \in ParseTexts :
        LET out == parse(text, planes, runways)
            was == planes[1].ai_controlled
            is == out.planes[1].ai_controlled
        IN /\ Cleared(out) => ~is
           /\ (~Cleared(out) /\ ~HasAutonomyToken(text)) => is = was
           /\ (~Cleared(out) /\ Tokens(text) = <<W("AI"), W("ON")>>) => is
           /\ (~Cleared(out) /\ Tokens(text) = <<W("AI"), W("OFF")>>) => ~is
           /\ (~Cleared(out) /\ Tokens(text) = <<W("AI")>>) => is = ~was

(* Aircraft 1 was given AI ON and a landing clearance in one segment and   *)
(* is under manual control                                                  *)
OverrideAfterAutonomyOn ==
    /\ results # <<>>
    /\ results[1].ctrl_msg = <<"CLEARED", 1>>
    /\ results[1].ack_msg = <<<<"AI enabled", "">>, <<"land clearance", "27L">>>>
    /\ planes[1].command_queue = <<LandCommand("27L")>>
    /\ ~planes[1].ai_controlled

(* The result of an empty input and of a segment for an unknown callsign;  *)
(* the lines of the model addressed to no aircraft                          *)
NoCommandResult ==
    [callsign |-> "", ctrl_msg |-> <<"NO COMMAND", 0>>, ack_msg |-> <<<<"no input", "">>>>]
NotFoundResult(callsign) ==
    [callsign |-> callsign, ctrl_msg |-> <<"NOT FOUND", 0>>,
     ack_msg |-> <<<<"not found", callsign>>>>]
UnknownTexts == {text \in ParseTexts : \A a \in Planes : text[1][1].w # Callsign[a]}

(* C11: an empty input yields the single "no command" result, a segment    *)
(* addressed to a callsign that matches no aircraft yields a "not found"   *)
(* result, and in both cases parse leaves every aircraft as it was (parse  *)
(* hands back no runway: the runways stay as they are).                     *)
EmptyOrUnknownInput ==
    /\ parse(<<>>, planes, runways) = ParseOut(planes, <<NoCommandResult>>, FALSE)
    /\ \A text \in UnknownTexts :
           parse(text, planes, runways)
               = ParseOut(planes, <<NotFoundResult(text[1][1].w)>>, FALSE)

(* A line for XX999 was entered while aircraft 1 had a command waiting *)
NotFoundReported ==
    /\ results = <<NotFoundResult("XX999")>>
    /\ planes[1].command_queue = <<LandCommand("27L")>>
    /\ running

(* C12: parse recovers validation errors locally: for every input line it  *)
(* returns a result with an acknowledgment for each segment and raises no  *)
(* exception, so the program keeps running.                                 *)
ParseRecoversLocally ==
    /\ running
    /\ \A text \in ParseTexts :
           LET out == parse(text, planes, runways)
           IN /\ ~out.raised
              /\ Len(out.results) = Len(text)
              /\ \A k \in DOMAIN out.results : out.results[k].ack_msg # <<>>

(* C13: a new manual command neither clears nor reorders the commands      *)
(* waiting in the queue: after parse the queue of the aircraft addressed   *)
(* is its previous queue followed by the commands the segment created, and *)
(* the queues of the other aircraft are as they were.                       *)
QueuePreserved ==
    \A text \in ParseTexts :
        LET out == parse(text, planes, runways)
            a == FindAircraft(planes, text[1][1].w)
        IN ~out.raised =>
              \A b \in Planes :
                  out.planes[b].command_queue =
                      IF b = a
                      THEN planes[b].command_queue
                               \o parse_segment(Tail(text[1]), 1, <<>>, <<>>,
                                                planes[a], runways).cmds
                      ELSE planes[b].command_queue

(* Aircraft 1 was given a speed while its landing clearance was waiting *)
QueuedBehind ==
    /\ planes[1].command_queue
           = <<LandCommand("27L"), Command("SPD", <<N(<<2, 0, 0>>)>>, NoTok)>>
    /\ results # <<>>
    /\ results[1].ctrl_msg = <<"CLEARED", 1>>

(* The unordered pairs of a conflict list, the aircraft named through the  *)
(* list order given                                                         *)
Pairs(res, order) == {{order[res[n][1]], order[res[n][2]]} : n \in DOMAIN res}
Identity == [a \in Traffic |-> a]
Orders == {f \in [Traffic -> Traffic] : \A a, b \in Traffic : f[a] = f[b] => a = b}
Scanned == pc = "ai"

(* C14: check_conflicts reports an unordered pair exactly when neither     *)
(* aircraft is LANDED, their lateral distance is strictly below            *)
(* SAFE_LAT_NM and their vertical separation is strictly below             *)
(* SAFE_VERT_FT.                                                            *)
ConflictRule ==
    Scanned =>
        Pairs(conflicts, Identity) =
            {pair \in SUBSET Traffic :
                \E a, b \in Traffic :
                    /\ a < b /\ pair = {a, b}
                    /\ planes[a].state # "LANDED" /\ planes[b].state # "LANDED"
                    /\ ((planes[a].x - planes[b].x) * (planes[a].x - planes[b].x)
                          + (planes[a].y - planes[b].y) * (planes[a].y - planes[b].y))
                         * NM_PER_PX_NUM * NM_PER_PX_NUM
                       < SAFE_LAT_NM * SAFE_LAT_NM * NM_PER_PX_DEN * NM_PER_PX_DEN
                    /\ Abs(planes[a].alt - planes[b].alt) < SAFE_VERT_FT}

(* Aircraft 1 and 2 about 1 nm and 500 ft apart: reported; aircraft 3 is   *)
(* within 3 nm of aircraft 1 yet 1000 ft above it: not reported; it is     *)
(* 2 nm and 500 ft from aircraft 2: reported                                *)
ConflictAtOneMile ==
    /\ Scanned
    /\ planes[2].x = 12 /\ planes[2].alt = planes[1].alt + 500
    /\ planes[3].x = 37 /\ planes[3].alt = planes[1].alt + 1000
    /\ \A a \in Traffic : planes[a].state = "AIRBORNE"
    /\ conflicts = <<<<1, 2, 500>>, <<2, 3, 500>>>>

(* C15: for every order of the aircraft list check_conflicts reports the   *)
(* same set of unordered pairs; every unordered pair is reported at most   *)
(* once and no reported pair has a LANDED aircraft.                         *)
ConflictSymmetry ==
    Scanned =>
        /\ \A order \in Orders :
               Pairs(check_conflicts([n \in Traffic |-> planes[order[n]]]), order)
                   = Pairs(conflicts, Identity)
        /\ Cardinality(Pairs(conflicts, Identity)) = Len(conflicts)
        /\ \A n \in DOMAIN conflicts :
               /\ conflicts[n][1] # conflicts[n][2]
               /\ planes[conflicts[n][1]].state # "LANDED"
               /\ planes[conflicts[n][2]].state # "LANDED"

(* Three aircraft at one place and level, the second LANDED: one pair *)
ConflictBesideLanded ==
    /\ Scanned
    /\ \A a \in Traffic : planes[a].x = 0 /\ planes[a].alt = 3000
    /\ planes[2].state = "LANDED"
    /\ planes[1].state = "AIRBORNE" /\ planes[3].state = "AIRBORNE"
    /\ conflicts = <<<<1, 3, 0>>>>

(* C16: after any sequence of inserts, insert has returned True exactly    *)
(* for the points inside the root bounds, and every such point is returned *)
(* by query_radius centred on it for every radius r >= 0, r = 0 and points *)
(* inserted before later subdivisions included.                             *)
QuadtreeContainment ==
    \A n \in DOMAIN calls :
        /\ calls[n].ok = (/\ 0 <= calls[n].x /\ calls[n].x <= QtSize
                          /\ 0 <= calls[n].y /\ calls[n].y <= QtSize)
        /\ calls[n].ok =>
               \A r \in QtRadii :
                   LET found == query_radius(qt, calls[n].x, calls[n].y, r)
                   IN \E k \in DOMAIN found : found[k] = calls[n].obj

(* The root has split after the first point was taken, a child has split   *)
(* too, and one point was refused                                           *)
QuadtreeSubdivided ==
    /\ Len(calls) = MaxInserts
    /\ calls[1].ok
    /\ \E n \in DOMAIN calls : ~calls[n].ok
    /\ qt.children # <<>>
    /\ qt.points = <<>>
    /\ \E k \in DOMAIN qt.children : qt.children[k].children # <<>>

(* The circular difference of two headings *)
Circular(a, b) == Min((a - b) % 360, (b - a) % 360)

(* C17: for every time step, target heading and forced direction the       *)
(* circular difference between the heading after and before turn_towards   *)
(* is at most TURN_RATE_DEG_PER_SEC x dt; a step is one tick's rotation to *)
(* the left or to the right, or else it is the snap onto the target, taken *)
(* only when the target is less than one tick's rotation away.              *)
TurnRateBound ==
    \A dt \in TurnDts :
        LET p == planes[1]
            q == turn_towards(p, p.dest_hdg, dt)
            tick == TURN_RATE_DEG_PER_SEC * dt
        IN /\ Circular(q.hdg, p.hdg) <= tick
           /\ \/ q.hdg = (p.hdg + tick) % 360
              \/ q.hdg = (p.hdg - tick) % 360
              \/ /\ q.hdg = p.dest_hdg % 360
                 /\ Circular(p.dest_hdg, p.hdg) < tick

(* The aircraft, told to turn right from 350 or 10, has come round to 349 *)
TurnedOntoTarget ==
    /\ planes[1].dest_hdg = 349
    /\ planes[1].turn_dir_forced = W("R")
    /\ planes[1].hdg = 349

(* The time by which an altitude change is due: the profile duration plus  *)
(* the stabilisation window                                                 *)
AltitudeDue(p) ==
    Max(p.alt_duration, ALTITUDE_INTERPOLATION_MIN_DURATION) + ALTITUDE_STABILISE_WINDOW

(* C18: after set_altitude_target(T), with the aircraft updated as time    *)
(* advances, the altitude comes to T exactly and the interpolation state   *)
(* (_alt_start_time, _alt_stabilise_start) is cleared no later than the    *)
(* profile duration plus the stabilisation window: no pass of updates ends *)
(* with an interpolation still open that was due, and the update that      *)
(* closes an interpolation leaves the altitude on the target.               *)
AltitudeConverges ==
    [][\A a \in Planes :
          /\ (pc' = "ai" /\ planes'[a].alt_start_time # NoInt)
                 => planes'[a].alt_start_time < AltitudeDue(planes'[a])
          /\ (planes[a].alt_start_time # NoInt /\ planes'[a].alt_start_time = NoInt)
                 => /\ planes'[a].alt = planes[a].alt_target
                    /\ planes'[a].alt_stabilise_start = NoInt]_vars

(* The other aircraft within the deconfliction radius of aircraft a; the   *)
(* available runways aligned with a and within the arming distance of it;  *)
(* the approach to runway r; the commands a step appends to the queue of a  *)
Neighbours(a) ==
    {b \in Planes \ {a} :
        (planes[b].x - planes[a].x) * (planes[b].x - planes[a].x)
          + (planes[b].y - planes[a].y) * (planes[b].y - planes[a].y)
        <= DeconflictRadiusPx * DeconflictRadiusPx}
Armed(a) ==
    {r \in RunwayNames :
        /\ is_available(runways[r])
        /\ Circular(RunwayBearing[r], planes[a].hdg) <= AI_ALIGN_ALLOWED_DIFF_DEG
        /\ ((planes[a].x - RunwayX[r]) * (planes[a].x - RunwayX[r])
              + (planes[a].y - RunwayY[r]) * (planes[a].y - RunwayY[r]))
             * NM_PER_PX_NUM * NM_PER_PX_NUM
           <= AI_APPROACH_ARM_DIST_NM * AI_APPROACH_ARM_DIST_NM
                * NM_PER_PX_DEN * NM_PER_PX_DEN}
Approach(r) ==
    <<Command("HDG", <<fmt03d(RunwayBearing[r])>>, NoTok),
      Command("SPD", <<str(AI_LANDING_SPEED)>>, NoTok),
      Command("ALT", <<N(<<0>>)>>, NoTok),
      Command("LAND", <<W(r)>>, NoTok)>>
Decides(a) == pc = "ai" /\ planes[a].ai_controlled /\ planes[a].ai_next_decision = 0
Appended(a) ==
    SubSeq(planes'[a].command_queue, Len(planes[a].command_queue) + 1,
           Len(planes'[a].command_queue))

(* C19: in an AI pass an aircraft with the autonomous flag on, an elapsed  *)
(* decision timer, no other traffic within the deconfliction radius and an *)
(* available runway aligned within AI_ALIGN_ALLOWED_DIFF_DEG and within    *)
(* AI_APPROACH_ARM_DIST_NM gets exactly HDG (runway bearing), SPD (landing *)
(* speed), ALT, LAND (that runway) appended to its queue, in this order.    *)
ApproachRule ==
    [][\A a \in Planes :
          (Decides(a) /\ Neighbours(a) = {} /\ Armed(a) # {})
              => /\ Len(planes'[a].command_queue) = Len(planes[a].command_queue) + 4
                 /\ \E r \in Armed(a) : Appended(a) = Approach(r)]_vars

(* C20: in an AI decision for an aircraft a deconfliction turn is enqueued *)
(* and neither an approach nor a direct-to-fix command if and only if      *)
(* another aircraft of the list lies within the deconfliction radius       *)
(* (0.8 x SAFE_LAT_NM) of it, wherever that other aircraft is.              *)
DeconflictionTrigger ==
    [][\A a \in Planes :
          Decides(a) =>
              ((\E sign \in {1, -1} :
                    Appended(a) =
                        <<Command("HDG",
                                  <<fmt03d((planes[a].hdg + AI_DECONFLICT_TURN * sign) % 180)>>,
                                  NoTok)>>)
                <=> Neighbours(a) # {})]_vars

(* The longest step of the clock between two AI passes *)
LongestStep == CHOOSE s \in ClockSteps : \A t \in ClockSteps : t <= s

(* C21: every AI decision for an aircraft, whichever commands it appends,  *)
(* sets the time to its next decision to AI_DECISION_PERIOD; the time runs *)
(* down only with the clock of the AI passes, nothing else changes it, and *)
(* the AI appends nothing to the queue of the aircraft before it has run   *)
(* out.                                                                     *)
DecisionTimer ==
    [][\A a \in Planes :
          IF pc = "ai"
          THEN IF planes[a].ai_controlled /\ planes[a].ai_next_decision <= LongestStep
               THEN /\ planes'[a].ai_next_decision = AI_DECISION_PERIOD
                    /\ Len(planes'[a].command_queue) > Len(planes[a].command_queue)
               ELSE /\ planes'[a].command_queue = planes[a].command_queue
                    /\ \E step \in ClockSteps :
                           planes'[a].ai_next_decision
                               = Max(planes[a].ai_next_decision - step, 0)
          ELSE planes'[a].ai_next_decision = planes[a].ai_next_decision]_vars

(* An aircraft that has executed a command of an earlier decision and has  *)
(* just been given a direct-to-fix command by a later one                   *)
DecidedAgain ==
    \E a \in Planes :
        /\ planes[a].ai_next_decision = AI_DECISION_PERIOD
        /\ planes[a].dest_hdg # NoInt
        /\ planes[a].command_queue # <<>>
        /\ planes[a].command_queue[Len(planes[a].command_queue)].type = "NAV"

(* The positions of the aircraft *)
Positions(ps) == [a \in DOMAIN ps |-> <<ps[a].x, ps[a].y>>]

StateChanges ==
    {<<"AIRBORNE", "TAKEOFF">>, <<"TAKEOFF", "AIRBORNE">>, <<"AIRBORNE", "LANDING">>,
     <<"LANDING", "LANDED">>, <<"TAKEOFF_PENDING", "TAKEOFF">>, <<"ON_RUNWAY", "TAKEOFF">>}

(* C24: under any sequence of manual commands, AI commands and updates     *)
(* every change of an aircraft's state is one of AIRBORNE->TAKEOFF,        *)
(* TAKEOFF->AIRBORNE, AIRBORNE->LANDING, LANDING->LANDED and               *)
(* TAKEOFF_PENDING/ON_RUNWAY->TAKEOFF; LANDED is terminal.                  *)
StateMachine ==
    [][\A a \in Planes :
          planes'[a].state # planes[a].state
              => <<planes[a].state, planes'[a].state>> \in StateChanges]_vars

(* C23: if the update of one aircraft raises during a tick, every other    *)
(* aircraft of the list is still updated in that tick and conflict         *)
(* detection still runs: a tick ends, with the conflicts detected, only    *)
(* after the update of the last aircraft of the list.                       *)
FailureIsolated ==
    [][(pc # "ai" /\ pc' = "ai")
          => /\ Updating = Cardinality(Planes)
             /\ conflicts' = check_conflicts(planes')]_vars

(* The step is an update of aircraft a that finds command kind at the head *)
(* of the queue of a and no delay pending                                   *)
Executes(a, kind) ==
    /\ pc # "ai"
    /\ pc' # "events"
    /\ Updating = a
    /\ planes[a].command_queue # <<>>
    /\ planes[a].command_queue[1].type = kind
    /\ planes[a].pending_command_timer <= 0

(* C25: executing a HOLD command, issued with a fix name or without one,   *)
(* marks the aircraft as holding, freezes hold_center at its position at   *)
(* that time and completes normally: the command is consumed and the rest  *)
(* of the update runs.                                                      *)
HoldExecution ==
    [][\A a \in Planes :
          Executes(a, "HOLD")
              => /\ planes'[a].holding
                 /\ planes'[a].hold_center = <<planes[a].x, planes[a].y>>
                 /\ planes'[a].command_queue = Tail(planes[a].command_queue)
                 /\ fatal_error' = fatal_error]_vars

LandingCompletion ==
    [][\A a \in Planes :
          (planes[a].state # "LANDED" /\ planes'[a].state = "LANDED")
              => /\ Updating = a
                 /\ a \in arrivals'
                 /\ planes'[a].current_runway = None
                 /\ planes[a].current_runway # None
                 /\ runways'[planes[a].current_runway] = NewRunway
                 /\ planes'[a].alt <= LANDING_TOUCHDOWN_ALT_FT
                 /\ \/ planes'[a].spd < LANDING_ROLLOUT_MIN_SPEED
                    \/ planes'[a].touchdown_time > LANDING_ROLLOUT_MAX_TIME]_vars

(* The release condition of the takeoff branch on aircraft p *)
ReleaseDue(p) ==
    \/ p.alt >= TAKEOFF_RELEASE_ALT_FT
    \/ (p.dest_alt > 0
        /\ p.alt * TAKEOFF_RELEASE_RATIO_DEN > TAKEOFF_RELEASE_RATIO_NUM * p.dest_alt)

(* C28: an aircraft in state TAKEOFF keeps its runway OCCUPIED until the   *)
(* first update after which its altitude is at or above                    *)
(* TAKEOFF_RELEASE_ALT_FT (or above TAKEOFF_RELEASE_RATIO of a positive    *)
(* target altitude); in that update the runway is released, current_runway *)
(* is cleared and the state becomes AIRBORNE, all three together.           *)
TakeoffRelease ==
    [][\A a \in Planes :
          (planes[a].state = "TAKEOFF" /\ planes[a].current_runway # None)
              => LET r == planes[a].current_runway
                 IN IF pc # "ai" /\ pc' # "events" /\ Updating = a
                       /\ ReleaseDue(planes'[a])
                    THEN /\ runways'[r] = NewRunway
                         /\ planes'[a].current_runway = None
                         /\ planes'[a].state = "AIRBORNE"
                    ELSE /\ runways'[r] = runways[r]
                         /\ runways[r].status = RUNWAY_OCCUPIED_STATUS
                         /\ planes'[a].current_runway = r
                         /\ planes'[a].state = "TAKEOFF"]_vars

(* The refs of the accepted insertions within r of (x, y), by a scan of    *)
(* the calls                                                                *)
LinearScan(x, y, r) ==
    {calls[n].obj : n \in {k \in DOMAIN calls :
        /\ calls[k].ok
        /\ (calls[k].x - x) * (calls[k].x - x) + (calls[k].y - y) * (calls[k].y - y)
              <= r * r}}

(* C29: after any sequence of inserts query_radius(x, y, r) returns        *)
(* exactly the refs of the accepted points whose distance to (x, y) is at  *)
(* most r, each once: nothing is lost by pruning and a point on a quadrant *)
(* boundary is not returned twice.                                          *)
QueryAgreesWithScan ==
    \A pt \in QtPoints, r \in QtRadii :
        LET found == query_radius(qt, pt[1], pt[2], r)
        IN /\ {found[k] : k \in DOMAIN found} = LinearScan(pt[1], pt[2], r)
           /\ Len(found) = Cardinality(LinearScan(pt[1], pt[2], r))

(* The tree has split and a query around the centre of the root, a point   *)
(* shared by its four quadrants, returns three of the four points stored   *)
QueryAcrossQuadrants ==
    /\ qt.children # <<>>
    /\ Len(calls) = 4
    /\ \A n \in DOMAIN calls : calls[n].ok
    /\ \E n \in DOMAIN calls : calls[n].x = 2 /\ calls[n].y = 2
    /\ Len(query_radius(qt, 2, 2, 1)) = 3

(* The nodes of a tree, the root included *)
RECURSIVE Nodes(_)
Nodes(t) ==
    {t} \cup UNION {Nodes(t.children[k]) : k \in DOMAIN t.children}

(* C30: no node is deeper than max_depth, and every point inside the       *)
(* bounds is stored, however many points are inserted and even when more   *)
(* than cap of them coincide: a node at max_depth keeps the points beyond  *)
(* its capacity instead of subdividing.                                     *)
QuadtreeDepthBound ==
    /\ \A node \in Nodes(qt) :
          /\ node.depth <= QtMaxDepth
          /\ (node.children # <<>> => node.points = <<>> /\ node.depth < QtMaxDepth)
          /\ (Len(node.points) > QtCap => node.depth = QtMaxDepth)
    /\ \A n \in DOMAIN calls :
          InBounds(qt, calls[n].x, calls[n].y)
              => /\ calls[n].ok
                 /\ \E node \in Nodes(qt) : \E k \in DOMAIN node.points :
                        node.points[k] = <<calls[n].x, calls[n].y, calls[n].obj>>

(* A node at max_depth holds more coincident points than its capacity *)
CoincidentBeyondCapacity ==
    \E node \in Nodes(qt) :
        /\ node.depth = QtMaxDepth
        /\ Len(node.points) > QtCap
        /\ \A k \in DOMAIN node.points :
              node.points[k][1] = node.points[1][1] /\ node.points[k][2] = node.points[1][2]

(* C32: the heading commanded by an AI deconfliction turn is the current   *)
(* heading of the aircraft plus or minus AI_DECONFLICT_TURN, modulo 360,   *)
(* for every current heading in [0, 360).                                   *)
DeconflictionHeading ==
    [][\A a \in Planes :
          (Decides(a) /\ Len(Appended(a)) = 1 /\ Appended(a)[1].type = "HDG")
              => \E sign \in {1, -1} :
                     Appended(a)[1].value
                         = <<fmt03d((planes[a].hdg + AI_DECONFLICT_TURN * sign) % 360)>>]_vars

(* C31: the aircraft the spawn factory puts into one simulation have       *)
(* pairwise distinct callsigns, so a segment that begins with the callsign *)
(* of an aircraft of the list is applied to that aircraft: only its queue  *)
(* can change.                                                              *)
CallsignUniqueness ==
    /\ \A a, b \in Planes : planes[a].callsign = planes[b].callsign => a = b
    /\ [][\A a \in Planes :
             \A text \in ParseTexts :
                 (/\ pc = "events" /\ pc' = "events"
                  /\ Len(text) = 1
                  /\ text[1] # <<>>
                  /\ text[1][1] = W(planes[a].callsign)
                  /\ planes' = parse(text, planes, runways).planes)
                     => \A b \in Planes \ {a} : planes'[b] = planes[b]]_vars

(* What an AI pass may not touch on an aircraft: operational state,        *)
(* position and flight values, targets, runway, hold and autonomous flag   *)
Untouched(p) ==
    <<p.state, p.x, p.y, p.hdg, p.spd, p.alt, p.dest_alt, p.dest_hdg, p.dest_spd,
      p.turn_dir_forced, p.alt_target, p.current_runway, p.on_runway, p.holding,
      p.hold_center, p.ai_controlled, p.pending_command_timer, p.msg>>

(* C33: AIController.update appends commands only to the aircraft whose    *)
(* autonomous flag is set and whose decision timer has elapsed, leaves the *)
(* queue of every other aircraft unchanged, and changes no aircraft's      *)
(* state, position or targets and no runway's status or holder: its only   *)
(* effects are queue appends and decision timers.                           *)
AIPassFrame ==
    [][pc = "ai" =>
          /\ runways' = runways
          /\ arrivals' = arrivals
          /\ \A a \in Planes :
                /\ Untouched(planes'[a]) = Untouched(planes[a])
                /\ Len(planes'[a].command_queue) >= Len(planes[a].command_queue)
                /\ SubSeq(planes'[a].command_queue, 1, Len(planes[a].command_queue))
                       = planes[a].command_queue
                /\ (~planes[a].ai_controlled \/ planes[a].ai_next_decision > LongestStep)
                       => planes'[a].command_queue = planes[a].command_queue]_vars

(* An AI pass has given the autonomous aircraft commands beside an         *)
(* aircraft under manual control that is rolling on a runway                *)
AIPassBesideManual ==
    /\ pc = "events"
    /\ \E a \in Planes :
          /\ planes[a].ai_controlled
          /\ planes[a].ai_next_decision = AI_DECISION_PERIOD
          /\ planes[a].command_queue # <<>>
          /\ \E b \in Planes \ {a} :
                /\ ~planes[b].ai_controlled
                /\ planes[b].state = "TAKEOFF"
                /\ planes[b].command_queue = <<>>
                /\ runways[planes[b].current_runway].active_aircraft = b

(* C39: the AI pass enqueues commands only on aircraft whose state is      *)
(* AIRBORNE: an autonomous aircraft that is LANDING, LANDED, in TAKEOFF or *)
(* waiting for a takeoff clearance gets no further command from the AI.     *)
AIOnlyAirborne ==
    [][\A a \in Planes :
          (pc = "ai" /\ planes'[a].command_queue # planes[a].command_queue)
              => planes[a].state = "AIRBORNE"]_vars

(* C35: every TAKEOFF or LAND command the interpreter has enqueued with a  *)
(* clearance occupies its runway when it is executed from the queue: no    *)
(* cleared aircraft is turned away as "occupied" at execution.  After the  *)
(* update the aircraft holds the runway, unless the same update has        *)
(* already completed the takeoff or the landing.                            *)
ClearanceImpliesOccupancy ==
    [][\A a \in Planes : \A kind \in {"TAKEOFF", "LAND"} :
          Executes(a, kind)
              => LET r == planes[a].command_queue[1].value[1].w
                 IN /\ runways'[r].active_aircraft = a \/ planes'[a].state \in {"AIRBORNE", "LANDED"}
                    /\ planes'[a].msg # "occupied"]_vars

(* C36: parse changes nothing on an aircraft except its command_queue and  *)
(* its ai_controlled flag: the target altitude, the state of the altitude  *)
(* interpolation, the target heading and the target speed change only when *)
(* the command is executed from the head of the queue.                      *)
ParseQueuesOnly ==
    [][\A a \in Planes :
          (pc = "events" /\ pc' = "events")
              => [planes'[a] EXCEPT !.command_queue = <<>>, !.ai_controlled = FALSE]
                   = [planes[a] EXCEPT !.command_queue = <<>>, !.ai_controlled = FALSE]]_vars


(* The command type that each acknowledgment of a cleared instruction      *)
(* stands for; rejections and the AI switch clear no command               *)
TypeOfAck(kind) ==
    CASE kind = "turn heading" -> "HDG"
      [] kind \in {"climb and maintain", "descend and maintain", "maintain"} -> "ALT"
      [] kind = "cleared direct" -> "NAV"
      [] kind = "speed" -> "SPD"
      [] kind \in {"hold fix", "hold position"} -> "HOLD"
      [] kind = "takeoff clearance" -> "TAKEOFF"
      [] kind = "land clearance" -> "LAND"
      [] OTHER -> None

ClearedAcks(acks) == SelectSeq(acks, LAMBDA ack : TypeOfAck(ack[1]) # None)

(* C37: for a segment with several valid instructions for one aircraft,    *)
(* parse appends exactly one command per acknowledged instruction to the   *)
(* aircraft's queue, in the order of the instructions, and the count in    *)
(* ctrl_msg is the number of acknowledged instructions.                     *)
OneCommandPerInstruction ==
    [][\A a \in Planes :
          (/\ pc = "events" /\ pc' = "events"
           /\ Len(results') = 1
           /\ results'[1].callsign = planes[a].callsign
           /\ results'[1].ctrl_msg[1] \in {"CLEARED", "NO VALID COMMANDS"})
              => LET acks == ClearedAcks(results'[1].ack_msg)
                     old == planes[a].command_queue
                     new == planes'[a].command_queue
                 IN /\ results'[1].ctrl_msg[2] = Len(acks)
                    /\ Len(new) = Len(old) + Len(acks)
                    /\ \A i \in 1..Len(acks) :
                           new[Len(old) + i].type = TypeOfAck(acks[i][1])]_vars


(* C38: when no turn direction is forced, an update never increases the    *)
(* circular distance between the heading and the target heading, to the    *)
(* left as to the right: the heading reaches the target without passing it. *)
NoHeadingOvershoot ==
    [][\A a \in Planes :
          (planes[a].turn_dir_forced = NoTok /\ planes[a].dest_hdg # NoInt)
              => Circular(planes'[a].hdg, planes[a].dest_hdg)
                     <= Circular(planes[a].hdg, planes[a].dest_hdg)]_vars


(* C40: once a LANDING aircraft has come down to the touchdown altitude,   *)
(* it does not rise above it again while it is LANDING, whatever dest_alt   *)
(* was set before the LAND command.                                         *)
DescentToTouchdownFinal ==
    [][\A a \in Planes :
          (/\ planes[a].state = "LANDING"
           /\ planes[a].alt <= LANDING_TOUCHDOWN_ALT_FT
           /\ planes'[a].state = "LANDING")
              => planes'[a].alt <= LANDING_TOUCHDOWN_ALT_FT]_vars


(* C34: while the loop keeps running and time advances, every runway that  *)
(* becomes OCCUPIED is eventually AVAILABLE again, under any sequence of    *)
(* manual and AI commands.                                                  *)
RunwayEventuallyReleased ==
    \A r \in RunwayNames :
        (runways[r].status = RUNWAY_OCCUPIED_STATUS)
            ~> (runways[r].status = RUNWAY_DEFAULT_STATUS \/ ~running \/ fatal_error)

====
